---- MODULE Spec2Model ----
(***************************************************************************)
(* browser-stream: the ref registry and resolver (state/ref-map.ts), the   *)
(* snapshot builder (state/snapshot.ts), the stability waiter              *)
(* (actions/stability.ts), the interactable check (actions/interactable.ts)*)
(* and the action orchestrator (actions/engine.ts).                        *)
(*                                                                         *)
(* The specifications share the variables:                                 *)
(*   RegSpec      the registry driven directly through its exported API;   *)
(*   ResolveSpec  resolveRef applied to any registry over any page;        *)
(*   StabSpec     one stability wait under arbitrary DOM / network events; *)
(*   StabFairSpec StabSpec with timers that fire;                          *)
(*   TrkSpec      one mutation tracker under arbitrary DOM events;         *)
(*   SnapSpec     takeSnapshot applied to any registry over any page;      *)
(*   WaitSpec     waitFor calls polling a small mutable page;              *)
(*   ChanSpec     tool calls over a channel that connects and crashes;     *)
(*   ScrollSpec   the page function and warnings of scroll;                *)
(*   DiffSpec     diffSnapshots on snapshots that repeat ids and paths;    *)
(*   ChangeSpec   diffSnapshots on snapshots whose elements' labels vary;  *)
(*   TailSpec     scroll after its pre-snapshot, with its mutation tracker;*)
(*   KeySpec      pressKey: the key string parsed, the events dispatched;  *)
(*   RaceSpec     the events of an action before and during its wait;     *)
(*   NavSpec      navigate and the load events of the page;                *)
(*   Spec         the action pipelines over a small mutable page.          *)
(***************************************************************************)
EXTENDS Integers, Sequences, FiniteSets, TLC

VARIABLES
    \* ---- state/ref-map.ts
    counter,          \* let counter = 0
    refs,             \* const refs = new Map<string, NodeIdentity>()
    issued,           \* history: every ref string returned by assignRef so far
    regOp,            \* history: the last registry operation and what it returned
    \* ---- actions/stability.ts, one waitForStability call
    now,              \* the clock, in ms since waitForStability was called
    stabPc,           \* "idle" (not called yet) | "waiting" | "resolved"
    pendingNetwork,   \* let pendingNetwork = 0
    pendingRequests,  \* const pendingRequests = new Map(): the requestIds in it
    networkEvents,    \* const networkEvents: NetworkEvent[] = []
    debounceTimer,    \* the time the debounce timer fires at, or NoTimer
    hardCapTimer,     \* the time the hard-cap timer fires at, or NoTimer
    subscribed,       \* the cdp.on handlers of this wait still subscribed
    stabResult,       \* what resolve() was called with, and when
    lastEventAt,      \* history: time of the latest tracked event (or of the start)
    idleSeen,         \* history: the page was once quiet for a full debounce window
    lastStep,         \* history: the handler or timer callback that ran last
    \* ---- actions/stability.ts, one createMutationTracker(cdp)
    trkPc,            \* "idle" (not created) | "tracking" | "stopped"
    parentInsertions, \* const parentInsertions = new Map<number, number>()
    parentRemovals,   \* const parentRemovals = new Map<number, number>()
    trkEvents,        \* history: the events the tracker's handlers ran for, in order
    trkRecord,        \* the MutationRecord stop() returned
    \* ---- the browser's page, seen through the CDP channel
    page,             \* the node at each position a domPath can select
    nextId,           \* the next backendNodeId / AX node id the browser hands out
    \* ---- the latest resolveRef call
    lastResolve,      \* history of the latest resolveRef call: under ResolveSpec
                      \* its arguments, the CDP outcomes and its result; under
                      \* Spec the identity it was called on and the tiers that
                      \* succeeded, kept until the pipeline's pre-snapshot
    \* ---- actions/engine.ts, the action in progress (tool calls are serialized)
    calls,            \* history: the tool calls made so far
    pc,               \* the step the action is suspended before; "idle", "done"
    act,              \* the call: its kind, its ref, the channel's state, and
                      \* (history) whether the ref was in the registry
    resolvedBy,       \* const { objectId, x, y, resolvedBy } = interactable
    preSnapshot,      \* let preSnapshot: SnapshotData (its elements)
    postSnapshot,     \* let postSnapshot: SnapshotData (its elements)
    result,           \* what the action's promise settled with
    log,              \* history: the pipeline steps completed, in order
    cdpSent,          \* history: the kinds of CDP request this action has sent
    loadHandlers,     \* the calls whose Page.loadEventFired handler is subscribed
    primFact,         \* history: what the input primitive of the fill in
                      \* progress met
    \* ---- actions/engine.ts, waitFor
    wfElapsed,        \* Date.now() - start, in poll intervals
    wfPolls,          \* history: the polls this call has made
    wfLast,           \* history: what the latest poll found
    \* ---- cdp/client.ts
    client,           \* let client: CDPClient | null (TRUE: not null)
    crashed,          \* let crashed = false
    crashSeen,        \* history: Inspector.targetCrashed was received
    snapCall,         \* history: the latest takeSnapshot call made on its own:
                      \* its option, the registry before it and what it returned
    wfKept,           \* history: at every poll so far the node the ref named at
                      \* the call was on the page with a box model, the
                      \* requests went through and the text, if asked for, was there
    \* ---- actions/engine.ts: scroll on its own
    scrollTop,        \* target.scrollTop of the scroll container
    scrollCall,       \* history: the latest scroll: its options, what the page
                      \* function returned and the warnings
    \* ---- state/differ.ts on its own
    diffPre,          \* pre.elements
    diffPost,         \* post.elements
    diffOut,          \* history: the latest diffSnapshots call: its network
                      \* events, the matching and the consequences
    \* ---- actions/engine.ts: scroll from its pre-snapshot on, with its tracker
    scrollPc,         \* the step scroll is suspended before; "idle", "done"
    scrollRun,        \* layoutShiftEnabled, actionError, and (history) the
                      \* steps completed, each with the tracker's state after it
    \* ---- actions/engine.ts: pressKey on its own
    keyPc,            \* the step pressKey is suspended before; "idle", "done"
    keyRun,           \* keyStr, parsed, and (history) the requests sent and
                      \* the result
    \* ---- actions/engine.ts: the action's primitive, then the stability wait
    earlyRequests,    \* (history) the Fetch/XHR requests in flight that the page
                      \* announced after actionStartTime was read and before
                      \* waitForStability subscribed
    \* ---- actions/engine.ts: navigate and the page's load events
    navPc,            \* the step navigate is suspended before; "idle", "done"
    navRun            \* the handlers subscribed, the load events still to
                      \* come, and (history) what resolved loadPromise, what
                      \* the snapshot showed, the result

regVars == <<counter, refs, issued, regOp>>

pageVars == <<page, nextId>>

stabVars == <<now, stabPc, pendingNetwork, pendingRequests, networkEvents,
              debounceTimer, hardCapTimer, subscribed, stabResult, lastEventAt,
              idleSeen, lastStep>>

trkVars == <<trkPc, parentInsertions, parentRemovals, trkEvents, trkRecord>>

actVars == <<calls, pc, act, resolvedBy, preSnapshot, postSnapshot, result, log,
             cdpSent, loadHandlers, primFact>>

wfVars == <<wfElapsed, wfPolls, wfLast, wfKept>>

snapVars == <<snapCall>>

chanVars == <<client, crashed, crashSeen>>

scrollVars == <<scrollTop, scrollCall>>

diffVars == <<diffPre, diffPost, diffOut>>

tailVars == <<scrollPc, scrollRun>>

keyVars == <<keyPc, keyRun>>

raceVars == <<earlyRequests>>

navVars == <<navPc, navRun>>

fnVars == <<scrollVars, diffVars, tailVars, keyVars, raceVars, navVars>>

vars == <<regVars, stabVars, trkVars, pageVars, lastResolve, actVars, wfVars, snapVars,
          chanVars, fnVars>>

-----------------------------------------------------------------------------
(* Bounds of the model                                                     *)

MaxCounter == 4       \* assignRef is not called once counter has reached this
MaxCalls == 2         \* tool calls in a session
MaxRequests == 2      \* tracked requestWillBeSent events per stability wait
MaxNode == 2          \* node ids of the pages and identities resolveRef is tried on
MaxEvents == 4        \* DOM events one mutation tracker sees
MaxPolls == 2         \* poll intervals in the longest wait-for timeout
MaxId == 2            \* backendNodeIds / AX node ids the page hands out
MaxScroll == 2        \* scrollHeight - clientHeight of the scroll container
MaxElements == 4      \* elements of the two snapshots one diff is given (DiffSpec)
MaxPairs == 3         \* the same in ChangeSpec

-----------------------------------------------------------------------------
(* Refs and identities: types.ts D1 / D2                                   *)

\* `@e${counter}`: the prefix and the decimal counter; two refs are equal
\* exactly when their counters are.
RefOf(n) == <<"@e", n>>

Paths == {"p1"}
BodyPath == "body"

\* { ...identity, stale: false }
Fresh(identity) ==
    [axNodeId |-> identity.axNodeId, backendNodeId |-> identity.backendNodeId,
     domPath |-> identity.domPath, stale |-> FALSE]

\* counter++ ; refs.set(`@e${counter}`, {...identity, stale:false}) ; return ref
\* The result is the triple (counter', refs', returned ref).
AssignRefBuggy(c, m, identity) ==
    LET ref == RefOf(Cardinality(DOMAIN m) + 1)
    IN  [counter |-> c + 1,
         refs |-> [r \in (DOMAIN m) \cup {ref} |-> IF r = ref THEN Fresh(identity) ELSE m[r]],
         ref |-> ref]

assignRef(c, m, identity) ==
    LET ref == RefOf(c + 1)
    IN  [counter |-> c + 1,
         refs |-> [r \in (DOMAIN m) \cup {ref} |-> IF r = ref THEN Fresh(identity) ELSE m[r]],
         ref |-> ref]

\* for (const identity of refs.values()) identity.stale = true
markAllStale(m) == [r \in DOMAIN m |-> [m[r] EXCEPT !.stale = TRUE]]

EmptyRefs == [r \in {} |-> 0]

\* refs.clear(); the counter is not touched. Result: (counter', refs').
ClearAllResetsCounter(c, m) == [counter |-> 0, refs |-> EmptyRefs]

ClearAllKeepsRefs(c, m) == [counter |-> c, refs |-> m]

clearAll(c, m) == [counter |-> c, refs |-> EmptyRefs]

\* refs.delete(ref)
freeRef(m, ref) == [r \in (DOMAIN m) \ {ref} |-> m[r]]

\* refs.get(ref): defined exactly on DOMAIN refs
getIdentity(m, ref) == m[ref]

-----------------------------------------------------------------------------
(* The page as the CDP channel shows it                                    *)

\* A page is a function from Paths (the positions a domPath selector names)
\* to the node there: its backendNodeId and its AX node id; backendNodeId 0 is
\* "no node" (the code tests ids for truthiness). <body> always exists.
BodyId == MaxId + MaxNode + 1
NoNode == [bid |-> 0, ax |-> 0]
BodyNode == [bid |-> BodyId, ax |-> BodyId]
PathOrder == <<"p1">>            \* document order

\* DOM.resolveNode({backendNodeId}) can succeed only for a node of the page
NodeExists(pg, bid) == bid = BodyId \/ (bid # 0 /\ \E p \in Paths : pg[p].bid = bid)

\* DOM.querySelector(root, selector) then DOM.describeNode: the node a domPath
\* selects, NoNode (nodeId 0) when it matches nothing
querySelector(pg, path) == IF path = BodyPath THEN BodyNode ELSE pg[path]

-----------------------------------------------------------------------------
(* state/ref-map.ts: resolveRef                                            *)

\* What the CDP requests of one resolveRef call do, beyond what the page
\* decides: io.resolveNode = FALSE: DOM.resolveNode rejects although the node
\* may exist; io.lookup names the request of the domPath tier that rejects
\* ("none": none does); io.ax is what Accessibility.getPartialAXTree gives.
ResolveIO ==
    {io \in [resolveNode : BOOLEAN,
             lookup : {"none", "DOM.getDocument", "DOM.querySelector",
                       "DOM.describeNode"},
             ax : {"node", "empty", "throw"}] :
       \* getPartialAXTree is sent only after the lookup went through
       io.lookup # "none" => io.ax = "node"}

\* Step 1 succeeds: DOM.resolveNode({backendNodeId: identity.backendNodeId})
\* goes through and the node exists
Tier1Ok(m, pg, ref, io) == io.resolveNode /\ NodeExists(pg, m[ref].backendNodeId)

\* Step 2 succeeds: DOM.getDocument, DOM.querySelector and DOM.describeNode go
\* through and the selector matches a node
Tier2Ok(m, pg, ref, io) ==
    io.lookup = "none" /\ querySelector(pg, m[ref].domPath).bid # 0

ResolveError(m, code, sent) ==
    [refs |-> m, code |-> code, backendNodeId |-> 0, resolvedBy |-> "none", sent |-> sent]

\* Step 2 of resolveRef (lines 72-103), entered after DOM.resolveNode rejected
DomPathTierKeepsOldId(m, pg, ref, io) ==
    LET identity == m[ref]
        found == querySelector(pg, identity.domPath)
        t1 == <<"DOM.resolveNode", "DOM.getDocument">>
        t2 == t1 \o <<"DOM.querySelector">>
        t3 == t2 \o <<"DOM.describeNode">>
    IN  IF io.lookup = "DOM.getDocument" THEN ResolveError(m, "REF_STALE", t1)
        ELSE IF io.lookup = "DOM.querySelector" THEN ResolveError(m, "REF_STALE", t2)
        ELSE IF found.bid = 0 THEN ResolveError(m, "REF_STALE", t2)
        ELSE IF io.lookup = "DOM.describeNode" THEN ResolveError(m, "REF_STALE", t3)
        ELSE [refs |-> m, code |-> "ok", backendNodeId |-> found.bid,
              resolvedBy |-> "domPath", sent |-> t3 \o <<"Accessibility.getPartialAXTree">>]

DomPathTierDropsIdOnMiss(m, pg, ref, io) ==
    LET identity == m[ref]
        found == querySelector(pg, identity.domPath)
        t1 == <<"DOM.resolveNode", "DOM.getDocument">>
        t2 == t1 \o <<"DOM.querySelector">>
        t3 == t2 \o <<"DOM.describeNode">>
        refreshed == [identity EXCEPT
                        !.backendNodeId = found.bid,
                        !.axNodeId = IF io.ax = "node" THEN found.ax ELSE @,
                        !.stale = FALSE]
    IN  IF io.lookup = "DOM.getDocument" THEN ResolveError(m, "REF_STALE", t1)
        ELSE IF io.lookup = "DOM.querySelector" THEN ResolveError(m, "REF_STALE", t2)
        ELSE IF found.bid = 0
        THEN ResolveError([m EXCEPT ![ref].backendNodeId = 0], "REF_STALE", t2)
        ELSE IF io.lookup = "DOM.describeNode" THEN ResolveError(m, "REF_STALE", t3)
        ELSE [refs |-> [m EXCEPT ![ref] = refreshed], code |-> "ok",
              backendNodeId |-> found.bid, resolvedBy |-> "domPath",
              sent |-> t3 \o <<"Accessibility.getPartialAXTree">>]

domPathTier(m, pg, ref, io) ==
    LET identity == m[ref]
        found == querySelector(pg, identity.domPath)
        t1 == <<"DOM.resolveNode", "DOM.getDocument">>
        t2 == t1 \o <<"DOM.querySelector">>
        t3 == t2 \o <<"DOM.describeNode">>
        refreshed == [identity EXCEPT
                        !.backendNodeId = found.bid,
                        !.axNodeId = IF io.ax = "node" THEN found.ax ELSE @,
                        !.stale = FALSE]
    IN  IF io.lookup = "DOM.getDocument" THEN ResolveError(m, "REF_STALE", t1)
        ELSE IF io.lookup = "DOM.querySelector" THEN ResolveError(m, "REF_STALE", t2)
        ELSE IF found.bid = 0 THEN ResolveError(m, "REF_STALE", t2)
        ELSE IF io.lookup = "DOM.describeNode" THEN ResolveError(m, "REF_STALE", t3)
        ELSE [refs |-> [m EXCEPT ![ref] = refreshed], code |-> "ok",
              backendNodeId |-> found.bid, resolvedBy |-> "domPath",
              sent |-> t3 \o <<"Accessibility.getPartialAXTree">>]

\* resolveRef(cdp, ref): the registry afterwards, the error code or "ok", the
\* resolved id and tier, and the CDP requests sent, in order.
ResolveRefUnknownIsStale(m, pg, ref, io) ==
    IF ref \notin DOMAIN m
    THEN ResolveError(m, "REF_STALE", <<>>)
    ELSE IF io.resolveNode /\ NodeExists(pg, m[ref].backendNodeId)
    THEN [refs |-> m, code |-> "ok", backendNodeId |-> m[ref].backendNodeId,
          resolvedBy |-> "backendNodeId", sent |-> <<"DOM.resolveNode">>]
    ELSE domPathTier(m, pg, ref, io)

ResolveRefSkipsTier1(m, pg, ref, io) ==
    IF ref \notin DOMAIN m
    THEN ResolveError(m, "NO_SUCH_REF", <<>>)
    ELSE domPathTier(m, pg, ref, io)

resolveRef(m, pg, ref, io) ==
    IF ref \notin DOMAIN m
    THEN ResolveError(m, "NO_SUCH_REF", <<>>)
    ELSE IF io.resolveNode /\ NodeExists(pg, m[ref].backendNodeId)
    THEN [refs |-> m, code |-> "ok", backendNodeId |-> m[ref].backendNodeId,
          resolvedBy |-> "backendNodeId", sent |-> <<"DOM.resolveNode">>]
    ELSE domPathTier(m, pg, ref, io)

-----------------------------------------------------------------------------
(* actions/interactable.ts: ensureInteractable                             *)

\* io.fail names the request after resolveRef that rejects ("none": none
\* does; a rejected DOM.getBoxModel is also how a hidden element shows);
\* const vp = layout.visualViewport: vp.clientWidth, vp.clientHeight
vpWidth == 2
vpHeight == 1

\* (cx, cy) of the content quad: a corner of the viewport, a point right of
\* it and a point above it
Centroids ==
    {[cx |-> vpWidth, cy |-> vpHeight], [cx |-> vpWidth + 1, cy |-> vpHeight],
     [cx |-> 0, cy |-> 0 - 1]}

\* if (cx < 0 || cx > vpWidth || cy < 0 || cy > vpHeight)
OutsideViewportOpen(cx, cy) == cx <= 0 \/ cx >= vpWidth \/ cy <= 0 \/ cy >= vpHeight

outsideViewport(cx, cy) == cx < 0 \/ cx > vpWidth \/ cy < 0 \/ cy > vpHeight

\* io.fail: the request that is rejected; io.centroid: what the first box
\* model's content quad gives
InteractIO ==
    {io \in [fail : {"none", "DOM.resolveNode", "DOM.getBoxModel",
                     "Page.getLayoutMetrics", "Runtime.callFunctionOn",
                     "DOM.getBoxModel#2"},
             centroid : Centroids] :
       \* no box model, no centroid; the scroll into view and the second box
       \* model only follow a centroid outside the viewport
       /\ io.fail \in {"DOM.resolveNode", "DOM.getBoxModel"}
            => io.centroid = [cx |-> vpWidth, cy |-> vpHeight]
       /\ io.fail \in {"Runtime.callFunctionOn", "DOM.getBoxModel#2"}
            => outsideViewport(io.centroid.cx, io.centroid.cy)}

\* The result: code is "ok", an error code to return, or "THROW" when the call
\* rejects because a request outside every try block rejected.
ensureInteractable(m, pg, ref, rio, io) ==
    LET r == resolveRef(m, pg, ref, rio)
        s2 == r.sent \o <<"DOM.resolveNode">>
        s3 == s2 \o <<"DOM.getBoxModel">>
        s4 == s3 \o <<"Page.getLayoutMetrics">>
        s5 == s4 \o <<"Runtime.callFunctionOn">>
        s6 == s5 \o <<"DOM.getBoxModel">>
        out(code, sent) == [refs |-> r.refs, code |-> code, resolvedBy |-> r.resolvedBy,
                            sent |-> sent]
    IN  IF r.code # "ok" THEN out(r.code, r.sent)
        ELSE IF io.fail = "DOM.resolveNode" THEN out("NOT_INTERACTABLE", s2)
        ELSE IF io.fail = "DOM.getBoxModel" THEN out("NOT_INTERACTABLE", s3)
        ELSE IF io.fail = "Page.getLayoutMetrics" THEN out("THROW", s4)
        ELSE IF ~outsideViewport(io.centroid.cx, io.centroid.cy) THEN out("ok", s4)
        ELSE IF io.fail = "Runtime.callFunctionOn" THEN out("THROW", s5)
        ELSE IF io.fail = "DOM.getBoxModel#2" THEN out("NOT_INTERACTABLE", s6)
        ELSE out("ok", s6)

-----------------------------------------------------------------------------
(* RegSpec: the registry API called in any order                           *)

\* Identities the snapshot builder passes to assignRef
IdentityInputs ==
    { [axNodeId |-> 1, backendNodeId |-> 1, domPath |-> "p1"],
      [axNodeId |-> 2, backendNodeId |-> 2, domPath |-> "p2"] }

NoResolve == [code |-> "none"]

PageInit ==
    /\ page = [p \in Paths |-> NoNode]
    /\ nextId = 1
    /\ lastResolve = NoResolve

\* The page changes on its own or as an effect of input: a node is removed, a
\* new node appears, a node is re-keyed in the accessibility tree.
PageRemove ==
    /\ \E p \in Paths :
         /\ page[p].bid # 0
         /\ page' = [page EXCEPT ![p] = NoNode]
    /\ UNCHANGED nextId

PageInsert ==
    /\ nextId <= MaxId
    /\ \E p \in Paths :
         /\ page[p].bid = 0
         /\ page' = [page EXCEPT ![p] = [bid |-> nextId, ax |-> nextId]]
    /\ nextId' = nextId + 1

PageRekey ==
    /\ nextId <= MaxId
    /\ \E p \in Paths :
         /\ page[p].bid # 0
         /\ page' = [page EXCEPT ![p].ax = nextId]
    /\ nextId' = nextId + 1

PageChange == PageRemove \/ PageInsert \/ PageRekey

RegInit ==
    /\ counter = 0
    /\ refs = EmptyRefs
    /\ issued = {}
    /\ regOp = [op |-> "none", ref |-> RefOf(0), before |-> 0, reused |-> FALSE]

RegAssign ==
    /\ counter < MaxCounter
    /\ \E identity \in IdentityInputs :
         LET a == assignRef(counter, refs, identity)
         IN  /\ counter' = a.counter
             /\ refs' = a.refs
             /\ issued' = issued \cup {a.ref}
             /\ regOp' = [op |-> "assign", ref |-> a.ref, before |-> counter,
                          reused |-> a.ref \in issued]

RegClear ==
    /\ LET c == clearAll(counter, refs)
       IN  /\ counter' = c.counter
           /\ refs' = c.refs
    /\ regOp' = [op |-> "clear", ref |-> RefOf(0), before |-> counter, reused |-> FALSE]
    /\ UNCHANGED issued

RegFree ==
    /\ \E n \in 1..MaxCounter :
         /\ refs' = freeRef(refs, RefOf(n))
         /\ regOp' = [op |-> "free", ref |-> RefOf(n), before |-> counter, reused |-> FALSE]
    /\ UNCHANGED <<counter, issued>>

RegMarkAllStale ==
    /\ refs' = markAllStale(refs)
    /\ regOp' = [op |-> "markAllStale", ref |-> RefOf(0), before |-> counter, reused |-> FALSE]
    /\ UNCHANGED <<counter, issued>>

RegNext ==
    /\ (RegAssign \/ RegClear \/ RegFree \/ RegMarkAllStale)
    /\ UNCHANGED <<stabVars, trkVars, wfVars, snapVars, fnVars, chanVars, pageVars, lastResolve, actVars>>

-----------------------------------------------------------------------------
(* ResolveSpec: resolveRef applied to any registry over any page           *)

NodeIds == 1..MaxNode

Identities ==
    [axNodeId : NodeIds, backendNodeId : NodeIds, domPath : Paths \cup {BodyPath},
     stale : BOOLEAN]

\* Pages whose nodes have distinct backendNodeIds and distinct AX ids
Pages ==
    { pg \in [Paths -> {NoNode} \cup [bid : NodeIds, ax : NodeIds]] :
        \A p, q \in Paths :
          (p # q /\ pg[p].bid # 0 /\ pg[q].bid # 0) =>
             (pg[p].bid # pg[q].bid /\ pg[p].ax # pg[q].ax) }

\* The ref under test is @e1; @e2, when present, is a bystander entry.
Bystander == [axNodeId |-> 1, backendNodeId |-> 1, domPath |-> "p1", stale |-> FALSE]

Registries ==
    { m \in UNION { [D -> Identities] : D \in SUBSET {RefOf(1), RefOf(2)} } :
        RefOf(2) \in DOMAIN m => m[RefOf(2)] = Bystander }

ResolveInit ==
    /\ counter = 2
    /\ refs \in Registries
    /\ issued = {RefOf(1), RefOf(2)}
    /\ regOp = [op |-> "none", ref |-> RefOf(0), before |-> 0, reused |-> FALSE]
    /\ page \in Pages
    /\ nextId = MaxNode + 1
    /\ lastResolve = NoResolve

\* What one resolveRef call saw and did: the identity before, which requests
\* the channel let through, whether any other entry changed, and the result.
ResolveRecord(m, ref, io, r) ==
    [ref |-> ref, known |-> ref \in DOMAIN m,
     before |-> IF ref \in DOMAIN m THEN m[ref] ELSE Bystander,
     io |-> io, code |-> r.code, backendNodeId |-> r.backendNodeId,
     resolvedBy |-> r.resolvedBy, sent |-> r.sent,
     othersKept |-> /\ DOMAIN r.refs = DOMAIN m
                    /\ \A x \in DOMAIN m : x # ref => r.refs[x] = m[x]]

\* One call at a time: the callers await resolveRef before anything else.
Resolve ==
    /\ lastResolve = NoResolve
    /\ \E n \in 1..3, io \in ResolveIO :
         LET r == resolveRef(refs, page, RefOf(n), io)
         IN  /\ refs' = r.refs
             /\ lastResolve' = ResolveRecord(refs, RefOf(n), io, r)
    /\ UNCHANGED <<counter, issued, regOp, stabVars, trkVars, wfVars, snapVars, fnVars, chanVars, pageVars>>

\* The caller takes the result: `const resolved = await resolveRef(cdp, ref)`
ResolveReturn ==
    /\ lastResolve # NoResolve
    /\ lastResolve' = NoResolve
    /\ UNCHANGED <<regVars, stabVars, trkVars, wfVars, snapVars, fnVars, chanVars, pageVars>>

ResolveNext == (Resolve \/ ResolveReturn) /\ UNCHANGED actVars

-----------------------------------------------------------------------------
(* actions/stability.ts: waitForStability                                  *)

DEBOUNCE_MS == 200
HARD_CAP_MS == 3000

\* The clock is sampled every half debounce window; timers fire exactly at
\* their deadline (the clock never passes an armed timer).
TimeStep == DEBOUNCE_MS \div 2

NoTimer == -1
ReqIds == {"r1", "r2"}
ResourceTypes == {"Fetch", "XHR", "Document"}
Undef == "undefined"
Handlers == {"DOM.childNodeInserted", "DOM.childNodeRemoved",
             "Network.requestWillBeSent", "Network.loadingFinished",
             "Network.loadingFailed"}
NoResult == [resolved |-> 0, timedOut |-> FALSE, networkEvents |-> <<>>, at |-> NoTimer,
             by |-> "none"]

StabInit ==
    /\ now = 0
    /\ stabPc = "idle"
    /\ pendingNetwork = 0
    /\ pendingRequests = {}
    /\ networkEvents = <<>>
    /\ debounceTimer = NoTimer
    /\ hardCapTimer = NoTimer
    /\ subscribed = {}
    /\ stabResult = NoResult
    /\ lastEventAt = 0
    /\ idleSeen = FALSE
    /\ lastStep = "none"

\* function resetDebounce(): clearTimeout(debounceTimer); setTimeout(checkSettle, DEBOUNCE_MS)
resetDebounce(t) == t + DEBOUNCE_MS

\* hardCapTimer = setTimeout(() => cleanup(true), HARD_CAP_MS)
HardCapNeverSet(t) == NoTimer

armHardCap(t) == t + HARD_CAP_MS

\* function cleanup(timedOut): both timers cleared, the five handlers removed,
\* resolve({ timedOut, networkEvents, mutations })
CleanupKeepsHardCap(timedOut, by) ==
    /\ debounceTimer' = NoTimer
    /\ hardCapTimer' = hardCapTimer
    /\ subscribed' = {}
    /\ stabPc' = "resolved"
    /\ stabResult' = [resolved |-> stabResult.resolved + 1, timedOut |-> timedOut,
                      networkEvents |-> networkEvents, at |-> now, by |-> by]

cleanup(timedOut, by) ==
    /\ debounceTimer' = NoTimer
    /\ hardCapTimer' = NoTimer
    /\ subscribed' = {}
    /\ stabPc' = "resolved"
    /\ stabResult' = [resolved |-> stabResult.resolved + 1, timedOut |-> timedOut,
                      networkEvents |-> networkEvents, at |-> now, by |-> by]

\* if (pendingNetwork <= 0) cleanup(false) else resetDebounce()
SettleIgnoresPending(pn) == TRUE

settles(pn) == pn <= 0

\* Math.max(0, pendingNetwork - 1)
decPending(pn) == IF pn - 1 > 0 THEN pn - 1 ELSE 0

\* const type = params.type || params.resourceType || "";
\* if (type !== "Fetch" && type !== "XHR") return;
\* if (params.timestamp && params.timestamp < actionStartTime) return;
\* early: params.timestamp is present and earlier than actionStartTime.
TrackedWhenEarly(type, early) == type \in {"Fetch", "XHR"}

tracked(type, early) == type \in {"Fetch", "XHR"} /\ ~early

\* History: the event a request handler was called with. sentOther: a
\* requestWillBeSent of another resource type; sentEarly: a Fetch/XHR one
\* with a timestamp before actionStartTime; doneUnknown: a loadingFinished
\* or loadingFailed for a requestId that is not in pendingRequests
SentEvent(type, early) ==
    IF type \notin {"Fetch", "XHR"} THEN "sentOther"
    ELSE IF early THEN "sentEarly"
    ELSE "sent"

DoneEvent(id, inflight) == IF id \in inflight THEN "done" ELSE "doneUnknown"

\* History kept beside the code's state: the page is idle at time t when no
\* tracked request is in flight and the latest tracked event is at least a
\* debounce window old.
IdleAt(t, last, inflight) == inflight = {} /\ t - last >= DEBOUNCE_MS

\* waitForStability(cdp, actionStartTime): subscribe the five handlers,
\* resetDebounce(), arm the hard cap; the promise is pending.
StabStart ==
    /\ stabPc = "idle"
    /\ stabPc' = "waiting"
    /\ subscribed' = Handlers
    /\ debounceTimer' = resetDebounce(now)
    /\ hardCapTimer' = armHardCap(now)
    /\ lastEventAt' = now
    /\ lastStep' = "start"
    /\ UNCHANGED <<now, pendingNetwork, pendingRequests, networkEvents, stabResult, idleSeen>>

\* Time passes. An armed timer fires at its deadline, so the clock stops there
\* until the callback has run; a timer runs its callback whenever it is armed,
\* whether or not the promise has resolved.
NextDeadline ==
    LET ds == {d \in {debounceTimer, hardCapTimer} : d # NoTimer}
    IN  IF ds = {} THEN NoTimer ELSE CHOOSE d \in ds : \A e \in ds : d <= e

Tick ==
    /\ stabPc # "idle"
    /\ NextDeadline # NoTimer
    /\ now < NextDeadline
    /\ now' = IF NextDeadline < now + TimeStep THEN NextDeadline ELSE now + TimeStep
    /\ idleSeen' = (idleSeen \/ IdleAt(now', lastEventAt, pendingRequests))
    /\ lastStep' = "tick"
    /\ UNCHANGED <<stabPc, pendingNetwork, pendingRequests, networkEvents,
                   debounceTimer, hardCapTimer, subscribed, stabResult, lastEventAt>>

\* function onChildNodeInserted(params) / onChildNodeRemoved(params), without
\* trackMutations (no caller passes it): resetDebounce()
OnChildNode(h) ==
    /\ h \in subscribed
    /\ debounceTimer' = resetDebounce(now)
    /\ lastEventAt' = now
    /\ lastStep' = "dom"
    /\ UNCHANGED <<now, stabPc, pendingNetwork, pendingRequests, networkEvents,
                   hardCapTimer, subscribed, stabResult, idleSeen>>

onChildNodeInserted == OnChildNode("DOM.childNodeInserted")

onChildNodeRemoved == OnChildNode("DOM.childNodeRemoved")

\* function onRequestSent(params)
onRequestSent ==
    /\ "Network.requestWillBeSent" \in subscribed
    /\ \E id \in ReqIds, type \in ResourceTypes, early \in BOOLEAN :
         /\ lastStep' = SentEvent(type, early)
         /\ IF tracked(type, early)
            THEN /\ pendingNetwork + Len(networkEvents) < MaxRequests
                 /\ pendingNetwork' = pendingNetwork + 1
                 /\ pendingRequests' = pendingRequests \cup {id}
                 /\ debounceTimer' = resetDebounce(now)
                 /\ lastEventAt' = now
            ELSE UNCHANGED <<pendingNetwork, pendingRequests, debounceTimer, lastEventAt>>
    /\ UNCHANGED <<now, stabPc, networkEvents, hardCapTimer, subscribed,
                   stabResult, idleSeen>>

\* function onRequestDone(params), subscribed to loadingFinished and loadingFailed
onRequestDone ==
    /\ \E h \in {"Network.loadingFinished", "Network.loadingFailed"} : h \in subscribed
    /\ \E id \in ReqIds, status \in {Undef, "200"} :
         /\ lastStep' = DoneEvent(id, pendingRequests)
         /\ IF id \in pendingRequests
            THEN /\ pendingNetwork' = decPending(pendingNetwork)
                 /\ pendingRequests' = pendingRequests \ {id}
                 /\ networkEvents' = Append(networkEvents,
                                            [requestId |-> id, status |-> status])
                 /\ debounceTimer' = resetDebounce(now)
                 /\ lastEventAt' = now
            ELSE UNCHANGED <<pendingNetwork, pendingRequests, networkEvents, debounceTimer,
                            lastEventAt>>
    /\ UNCHANGED <<now, stabPc, hardCapTimer, subscribed, stabResult, idleSeen>>

\* The debounce timer fires: function checkSettle()
checkSettle ==
    /\ debounceTimer # NoTimer /\ debounceTimer = now
    /\ IF settles(pendingNetwork)
       THEN /\ cleanup(FALSE, "debounce")
            /\ lastStep' = "settled"
       ELSE /\ debounceTimer' = resetDebounce(now)
            /\ lastStep' = "rearmed"
            /\ UNCHANGED <<stabPc, hardCapTimer, subscribed, stabResult>>
    /\ UNCHANGED <<now, pendingNetwork, pendingRequests, networkEvents,
                   lastEventAt, idleSeen>>

\* The hard-cap timer fires: () => cleanup(true)
hardCapFires ==
    /\ hardCapTimer # NoTimer /\ hardCapTimer = now
    /\ cleanup(TRUE, "hardCap")
    /\ lastStep' = "capped"
    /\ UNCHANGED <<now, pendingNetwork, pendingRequests, networkEvents,
                   lastEventAt, idleSeen>>

\* The caller has its StabilityResult; the next action starts a new wait.
StabReturn ==
    /\ stabPc = "resolved"
    /\ now' = 0
    /\ stabPc' = "idle"
    /\ pendingNetwork' = 0
    /\ pendingRequests' = {}
    /\ networkEvents' = <<>>
    /\ stabResult' = NoResult
    /\ lastEventAt' = 0
    /\ idleSeen' = FALSE
    /\ lastStep' = "none"
    /\ UNCHANGED <<debounceTimer, hardCapTimer, subscribed>>

StabNext ==
    /\ \/ StabStart
       \/ Tick
       \/ onChildNodeInserted
       \/ onChildNodeRemoved
       \/ onRequestSent
       \/ onRequestDone
       \/ checkSettle
       \/ hardCapFires
       \/ StabReturn
    /\ UNCHANGED <<regVars, trkVars, pageVars, lastResolve, actVars, wfVars, snapVars, fnVars, chanVars>>

-----------------------------------------------------------------------------
(* actions/stability.ts: createMutationTracker                             *)

ParentIds == {1, 2}                      \* params.parentNodeId
EventTypes == {"DOM.childNodeInserted", "DOM.childNodeRemoved"}
EmptyCounts == [p \in {} |-> 0]          \* new Map<number, number>()
NoRecord == [insertions |-> -1, removals |-> -1, churnCount |-> -1]

\* map.get(parentId) || 0
Get(m, parentId) == IF parentId \in DOMAIN m THEN m[parentId] ELSE 0

\* map.set(parentId, (map.get(parentId) || 0) + 1)
Increment(m, parentId) ==
    [p \in DOMAIN m \cup {parentId} |-> IF p = parentId THEN Get(m, parentId) + 1 ELSE m[p]]

Min(a, b) == IF a < b THEN a ELSE b

\* for (const count of map.values()) total += count
RECURSIVE SumValues(_)
SumValues(m) ==
    IF DOMAIN m = {} THEN 0
    ELSE LET p == CHOOSE q \in DOMAIN m : TRUE
         IN  m[p] + SumValues([q \in DOMAIN m \ {p} |-> m[q]])

\* for (const parentId of parents) churnCount += Math.min(ins, rem)
RECURSIVE SumChurn(_, _, _)
SumChurn(parents, ins, rem) ==
    IF parents = {} THEN 0
    ELSE LET p == CHOOSE q \in parents : TRUE
         IN  Min(Get(ins, p), Get(rem, p)) + SumChurn(parents \ {p}, ins, rem)

\* stop(): the MutationRecord of the two maps
StopChurnIsGlobalMin(ins, rem) ==
    [insertions |-> SumValues(ins), removals |-> SumValues(rem),
     churnCount |-> Min(SumValues(ins), SumValues(rem))]

stop(ins, rem) ==
    [insertions |-> SumValues(ins), removals |-> SumValues(rem),
     churnCount |-> SumChurn(DOMAIN ins \cup DOMAIN rem, ins, rem)]

\* buildMutationRecord() of waitForStability: the same aggregation over the
\* maps its handlers fill when trackMutations is set
buildMutationRecord(ins, rem) ==
    LET parents == DOMAIN ins \cup DOMAIN rem
    IN  [insertions |-> SumValues(ins), removals |-> SumValues(rem),
         churnCount |-> SumChurn(parents, ins, rem)]

\* The maps after the handlers ran for a sequence of events
RECURSIVE Tracked(_)
Tracked(events) ==
    IF events = <<>> THEN [ins |-> EmptyCounts, rem |-> EmptyCounts]
    ELSE LET before == Tracked(SubSeq(events, 1, Len(events) - 1))
             e == events[Len(events)]
         IN  IF e.type = "DOM.childNodeInserted"
             THEN [before EXCEPT !.ins = Increment(@, e.parentNodeId)]
             ELSE [before EXCEPT !.rem = Increment(@, e.parentNodeId)]

TrkInit ==
    /\ trkPc = "idle"
    /\ parentInsertions = EmptyCounts
    /\ parentRemovals = EmptyCounts
    /\ trkEvents = <<>>
    /\ trkRecord = NoRecord

\* createMutationTracker(cdp): two empty maps, two handlers subscribed
createMutationTracker ==
    /\ trkPc = "idle"
    /\ trkPc' = "tracking"
    /\ parentInsertions' = EmptyCounts
    /\ parentRemovals' = EmptyCounts
    /\ trkEvents' = <<>>
    /\ trkRecord' = NoRecord

\* const onInserted = (params) => ...
onInserted ==
    /\ trkPc = "tracking"
    /\ Len(trkEvents) < MaxEvents
    /\ \E parentId \in ParentIds :
         /\ parentInsertions' = Increment(parentInsertions, parentId)
         /\ trkEvents' = Append(trkEvents, [type |-> "DOM.childNodeInserted",
                                            parentNodeId |-> parentId])
    /\ UNCHANGED <<trkPc, parentRemovals, trkRecord>>

\* const onRemoved = (params) => ...
onRemoved ==
    /\ trkPc = "tracking"
    /\ Len(trkEvents) < MaxEvents
    /\ \E parentId \in ParentIds :
         /\ parentRemovals' = Increment(parentRemovals, parentId)
         /\ trkEvents' = Append(trkEvents, [type |-> "DOM.childNodeRemoved",
                                            parentNodeId |-> parentId])
    /\ UNCHANGED <<trkPc, parentInsertions, trkRecord>>

\* tracker.stop(): both handlers unsubscribed, the record returned
TrkStop ==
    /\ trkPc = "tracking"
    /\ trkPc' = "stopped"
    /\ trkRecord' = stop(parentInsertions, parentRemovals)
    /\ UNCHANGED <<parentInsertions, parentRemovals, trkEvents>>

\* The caller has the record; the next scroll creates a new tracker
TrkReturn ==
    /\ trkPc = "stopped"
    /\ trkPc' = "idle"
    /\ parentInsertions' = EmptyCounts
    /\ parentRemovals' = EmptyCounts
    /\ trkEvents' = <<>>
    /\ trkRecord' = NoRecord

TrkNext ==
    /\ \/ createMutationTracker
       \/ onInserted
       \/ onRemoved
       \/ TrkStop
       \/ TrkReturn
    /\ UNCHANGED <<regVars, stabVars, pageVars, lastResolve, actVars, wfVars, snapVars, fnVars, chanVars>>

-----------------------------------------------------------------------------
(* state/snapshot.ts: takeSnapshot                                         *)

\* What the CDP requests of one takeSnapshot call do, beyond what the page
\* decides. fail: the request outside every try block that rejects ("none":
\* none does; "Runtime.evaluate" is the first such request the call sends);
\* mode: "ax": the AX tree lists the page's interactive nodes, "fallback" and
\* "fallbackNoAx": it lists none of them and the DOM fallback finds them, with
\* or without an AX id from getPartialAXTree; noPath: the nodes whose
\* DOM.resolveNode rejects; name: the accessible name the nodes have.
SnapshotIO ==
    {io \in [fail : {"none", "Accessibility.getFullAXTree", "Runtime.evaluate",
                     "DOM.querySelectorAll", "Page.getLayoutMetrics"},
             mode : {"ax", "axNoBackend", "fallback", "fallbackNoAx"},
             noPath : SUBSET Paths,
             name : {""}] :
       \* what a request that is never sent would do is left out
       /\ io.fail = "Accessibility.getFullAXTree" => io.mode = "ax" /\ io.noPath = {}
       /\ io.mode \in {"ax", "axNoBackend"} => io.fail # "DOM.querySelectorAll"
       /\ io.mode = "axNoBackend" => io.noPath = {}}

\* The same when the action has given the elements another accessible name;
\* a snapshot that throws shows no name
RenamedIO == {[io EXCEPT !.name = "b"] : io \in {i \in SnapshotIO : i.fail = "none"}}

\* The page model gives every node the role button and no properties
NoProperties == [key \in {} |-> ""]

\* The page's interactive nodes in document order
PresentPaths(pg) == SelectSeq(PathOrder, LAMBDA p : pg[p].bid # 0)

NoElements(c, m) == [counter |-> c, refs |-> m, elements |-> <<>>]

\* The loops of snapshotFromAxTree (fallback = FALSE: a node whose
\* DOM.resolveNode rejects keeps the default domPath "body") and of
\* snapshotFromDomFallback (fallback = TRUE: such a node is skipped): one
\* assignRef and one element per node.
RECURSIVE assignElements(_, _, _, _, _, _)
assignElements(c, m, pg, paths, io, fallback) ==
    IF paths = <<>> THEN NoElements(c, m)
    ELSE LET p == Head(paths)
             domPath == IF p \in io.noPath THEN BodyPath ELSE p
             axNodeId == IF fallback /\ io.mode = "fallbackNoAx" THEN 0 ELSE pg[p].ax
         IN  IF fallback /\ p \in io.noPath
             THEN assignElements(c, m, pg, Tail(paths), io, fallback)
             ELSE LET a == assignRef(c, m, [axNodeId |-> axNodeId,
                                           backendNodeId |-> pg[p].bid,
                                           domPath |-> domPath])
                      rest == assignElements(a.counter, a.refs, pg, Tail(paths), io,
                                             fallback)
                  IN  [counter |-> rest.counter, refs |-> rest.refs,
                       elements |-> <<[ref |-> a.ref, axNodeId |-> axNodeId,
                                       domPath |-> domPath, role |-> "button",
                                       name |-> io.name, properties |-> NoProperties]>>
                                    \o rest.elements]

\* interactiveCount++ for every node of an interactive role that is not
\* ignored, before the node is skipped for want of a backendDOMNodeId
interactiveCount(pg, io) ==
    IF io.mode \in {"ax", "axNoBackend"} THEN Len(PresentPaths(pg)) ELSE 0

snapshotFromAxTree(c, m, pg, io) ==
    IF io.mode = "ax" THEN assignElements(c, m, pg, PresentPaths(pg), io, FALSE)
    ELSE NoElements(c, m)

snapshotFromDomFallback(c, m, pg, io) ==
    assignElements(c, m, pg, PresentPaths(pg), io, TRUE)

\* takeSnapshot(cdp, { keepExistingRefs }): the counter and registry
\* afterwards, the elements, "ok" or "THROW" (the promise rejects), and the
\* CDP methods sent.
TakeSnapshotAlwaysClears(c, m, pg, keepExistingRefs, io) ==
    LET base == clearAll(c, m)
        ax == snapshotFromAxTree(base.counter, base.refs, pg, io)
        fb == snapshotFromDomFallback(ax.counter, ax.refs, pg, io)
        useFallback == interactiveCount(pg, io) = 0 /\ PresentPaths(pg) # <<>>
        fin == IF useFallback THEN fb ELSE ax
        out(code, r, methods) ==
            [code |-> code, counter |-> r.counter, refs |-> r.refs,
             elements |-> r.elements, sent |-> methods,
             walked |-> Len(ax.elements)]
        s1 == {"Accessibility.getFullAXTree"}
        s2 == s1 \cup (IF Len(ax.elements) > 0 THEN {"DOM.resolveNode"} ELSE {})
        s3 == s2 \cup {"Runtime.evaluate"}
        s4 == s3 \cup (IF useFallback THEN {"DOM.getDocument", "DOM.querySelectorAll"}
                       ELSE {})
    IN  IF io.fail = "Accessibility.getFullAXTree"
        THEN out("THROW", NoElements(base.counter, base.refs), s1)
        ELSE IF io.fail = "Runtime.evaluate" THEN out("THROW", ax, s3)
        ELSE IF useFallback /\ io.fail = "DOM.querySelectorAll"
        THEN out("THROW", ax, s4)
        ELSE IF io.fail = "Page.getLayoutMetrics"
        THEN out("THROW", fin, s4 \cup {"Page.getLayoutMetrics"})
        ELSE out("ok", fin, s4 \cup {"Page.getLayoutMetrics"})

takeSnapshot(c, m, pg, keepExistingRefs, io) ==
    LET base == IF keepExistingRefs THEN [counter |-> c, refs |-> m] ELSE clearAll(c, m)
        ax == snapshotFromAxTree(base.counter, base.refs, pg, io)
        fb == snapshotFromDomFallback(ax.counter, ax.refs, pg, io)
        useFallback == interactiveCount(pg, io) = 0 /\ PresentPaths(pg) # <<>>
        fin == IF useFallback THEN fb ELSE ax
        out(code, r, methods) ==
            [code |-> code, counter |-> r.counter, refs |-> r.refs,
             elements |-> r.elements, sent |-> methods,
             walked |-> Len(ax.elements)]
        s1 == {"Accessibility.getFullAXTree"}
        s2 == s1 \cup (IF Len(ax.elements) > 0 THEN {"DOM.resolveNode"} ELSE {})
        s3 == s2 \cup {"Runtime.evaluate"}
        s4 == s3 \cup (IF useFallback THEN {"DOM.getDocument", "DOM.querySelectorAll"}
                       ELSE {})
    IN  IF io.fail = "Accessibility.getFullAXTree"
        THEN out("THROW", NoElements(base.counter, base.refs), s1)
        ELSE IF io.fail = "Runtime.evaluate" THEN out("THROW", ax, s3)
        ELSE IF useFallback /\ io.fail = "DOM.querySelectorAll"
        THEN out("THROW", ax, s4)
        ELSE IF io.fail = "Page.getLayoutMetrics"
        THEN out("THROW", fin, s4 \cup {"Page.getLayoutMetrics"})
        ELSE out("ok", fin, s4 \cup {"Page.getLayoutMetrics"})

\* The assignRef calls one takeSnapshot makes on this page at the most
SnapshotSize(pg) == Len(PresentPaths(pg))

-----------------------------------------------------------------------------
(* SnapSpec: takeSnapshot called on any registry over any page             *)

NoSnap == [code |-> "none"]

SnapInit == snapCall = NoSnap

\* await takeSnapshot(cdp, { keepExistingRefs })
SnapTake ==
    /\ snapCall = NoSnap
    /\ counter + SnapshotSize(page) <= MaxCounter
    /\ \E keepExistingRefs \in BOOLEAN, io \in SnapshotIO :
         LET snap == takeSnapshot(counter, refs, page, keepExistingRefs, io)
         IN  /\ counter' = snap.counter
             /\ refs' = snap.refs
             /\ issued' = issued \cup {RefOf(n) : n \in (counter + 1)..snap.counter}
             /\ snapCall' = [code |-> snap.code, keepExistingRefs |-> keepExistingRefs,
                             counter |-> counter, refs |-> refs,
                             elements |-> snap.elements,
                             mode |-> io.mode, walked |-> snap.walked,
                             fallback |-> "DOM.querySelectorAll" \in snap.sent]
    /\ UNCHANGED <<regOp, stabVars, trkVars, wfVars, pageVars, lastResolve, actVars, chanVars,
                   fnVars>>

\* The caller has the SnapshotData (or the exception)
SnapReturn ==
    /\ snapCall # NoSnap
    /\ snapCall' = NoSnap
    /\ UNCHANGED <<regVars, stabVars, trkVars, wfVars, pageVars, lastResolve, actVars, chanVars,
                   fnVars>>

SnapNext == SnapTake \/ SnapReturn

-----------------------------------------------------------------------------
(* state/differ.ts: matchElements, diffSnapshots                           *)

Max(S) == CHOOSE x \in S : \A y \in S : y <= x

\* A Map filled by set() in element order holds, for a key, the last element
\* that carries it.
AxIdsOf(elements) == {elements[i].axNodeId : i \in DOMAIN elements} \ {0}
ByAxId(elements, ax) ==
    elements[Max({i \in DOMAIN elements : elements[i].axNodeId = ax})]
HasPath(elements, path) == \E i \in DOMAIN elements : elements[i].domPath = path
ByPath(elements, path) ==
    elements[Max({i \in DOMAIN elements : elements[i].domPath = path})]

\* Phase 1: for (const [axId, postEl] of postByAxId): the keys in the order
\* of their first set(), each with the last post element that carries it,
\* paired with the last pre element of the same axNodeId if there is one.
\* matched is a Map keyed by the post element's ref: a sequence of pairs in
\* insertion order.
RECURSIVE matchByAxId(_, _, _, _)
matchByAxId(pre, post, i, acc) ==
    IF i > Len(post) THEN acc
    ELSE LET axId == post[i].axNodeId
         IN  IF axId = 0
                  \/ (\E j \in 1..(i - 1) : post[j].axNodeId = axId)
                  \/ axId \notin AxIdsOf(pre)
             THEN matchByAxId(pre, post, i + 1, acc)
             ELSE matchByAxId(pre, post, i + 1,
                    [matched |-> Append(acc.matched,
                                        [pre |-> ByAxId(pre, axId),
                                         post |-> ByAxId(post, axId)]),
                     matchedPreRefs |-> acc.matchedPreRefs \cup {ByAxId(pre, axId).ref},
                     matchedPostRefs |-> acc.matchedPostRefs \cup {ByAxId(post, axId).ref},
                     domPathFallbacks |-> 0])

\* Phase 2: the post elements still unmatched, in order, each paired with
\* the pre element of the same domPath if that one is still unmatched
RECURSIVE MatchByPathIgnoresMatched(_, _, _, _)
MatchByPathIgnoresMatched(pre, post, i, acc) ==
    IF i > Len(post) THEN acc
    ELSE LET postEl == post[i]
         IN  IF postEl.ref \in acc.matchedPostRefs
                  \/ ~HasPath(pre, postEl.domPath)
             THEN MatchByPathIgnoresMatched(pre, post, i + 1, acc)
             ELSE MatchByPathIgnoresMatched(pre, post, i + 1,
                    [matched |-> Append(acc.matched,
                                        [pre |-> ByPath(pre, postEl.domPath),
                                         post |-> postEl]),
                     matchedPreRefs |-> acc.matchedPreRefs \cup
                                   {ByPath(pre, postEl.domPath).ref},
                     matchedPostRefs |-> acc.matchedPostRefs \cup {postEl.ref},
                     domPathFallbacks |-> acc.domPathFallbacks + 1])

RECURSIVE matchByPath(_, _, _, _)
matchByPath(pre, post, i, acc) ==
    IF i > Len(post) THEN acc
    ELSE LET postEl == post[i]
         IN  IF postEl.ref \in acc.matchedPostRefs
                  \/ ~HasPath(pre, postEl.domPath)
                  \/ ByPath(pre, postEl.domPath).ref \in acc.matchedPreRefs
             THEN matchByPath(pre, post, i + 1, acc)
             ELSE matchByPath(pre, post, i + 1,
                    [matched |-> Append(acc.matched,
                                        [pre |-> ByPath(pre, postEl.domPath),
                                         post |-> postEl]),
                     matchedPreRefs |-> acc.matchedPreRefs \cup
                                   {ByPath(pre, postEl.domPath).ref},
                     matchedPostRefs |-> acc.matchedPostRefs \cup {postEl.ref},
                     domPathFallbacks |-> acc.domPathFallbacks + 1])

NoMatch == [matched |-> <<>>, matchedPreRefs |-> {}, matchedPostRefs |-> {},
            domPathFallbacks |-> 0]

matchElements(pre, post) ==
    LET phase1 == matchByAxId(pre, post, 1, NoMatch)
        m == matchByPath(pre, post, 1, phase1)
    IN  [matched |-> m.matched,
         appeared |-> SelectSeq(post, LAMBDA el : el.ref \notin m.matchedPostRefs),
         disappeared |-> SelectSeq(pre, LAMBDA el : el.ref \notin m.matchedPreRefs),
         domPathFallbacks |-> m.domPathFallbacks]

\* el.properties[key]: undefined for a key the element does not carry
Property(el, key) ==
    IF key \in DOMAIN el.properties THEN el.properties[key] ELSE Undef

\* describeChange(pre, post): the fields that differ (name, role, property
\* keys over the union of both key sets); the code returns their
\* descriptions joined, or null when there is none
DescribeChangeSharedKeys(pre, post) ==
    (IF pre.name # post.name THEN {"name"} ELSE {})
    \cup (IF pre.role # post.role THEN {"role"} ELSE {})
    \cup {key \in DOMAIN pre.properties \cap DOMAIN post.properties :
            Property(pre, key) # Property(post, key)}

describeChange(pre, post) ==
    (IF pre.name # post.name THEN {"name"} ELSE {})
    \cup (IF pre.role # post.role THEN {"role"} ELSE {})
    \cup {key \in DOMAIN pre.properties \cup DOMAIN post.properties :
            Property(pre, key) # Property(post, key)}

\* `${evt.status || "pending"}`
statusText(evt) == IF evt.status = Undef THEN "pending" ELSE evt.status

\* The consequences of diffSnapshots, in the order the code pushes them:
\* appeared, disappeared, changed (one per matched pair that describeChange
\* describes, with the key of the pair, the post element's ref), network
\* (one per network event)
Appeared(m) == [i \in DOMAIN m.appeared |-> [type |-> "appeared", ref |-> m.appeared[i].ref]]

Disappeared(m) ==
    [i \in DOMAIN m.disappeared |-> [type |-> "disappeared", ref |-> m.disappeared[i].ref]]

ChangedCarriesPreRef(m) ==
    LET pairs == SelectSeq(m.matched, LAMBDA pr : describeChange(pr.pre, pr.post) # {})
    IN  [i \in DOMAIN pairs |-> [type |-> "changed", ref |-> pairs[i].pre.ref,
                                 desc |-> describeChange(pairs[i].pre, pairs[i].post)]]

Changed(m) ==
    LET pairs == SelectSeq(m.matched, LAMBDA pr : describeChange(pr.pre, pr.post) # {})
    IN  [i \in DOMAIN pairs |-> [type |-> "changed", ref |-> pairs[i].post.ref,
                                 desc |-> describeChange(pairs[i].pre, pairs[i].post)]]

Network(events) ==
    [i \in DOMAIN events |-> [type |-> "network", ref |-> RefOf(0),
                                     desc |-> statusText(events[i])]]

DiffSnapshotsNetworkFirst(pre, post, events) ==
    LET m == matchElements(pre, post)
    IN  Network(events) \o Appeared(m) \o Disappeared(m) \o Changed(m)

diffSnapshots(pre, post, events) ==
    LET m == matchElements(pre, post)
    IN  Appeared(m) \o Disappeared(m) \o Changed(m) \o Network(events)

-----------------------------------------------------------------------------
(* actions/engine.ts: the action pipelines                                 *)

\* The history keeps the kind of the requests a step sent, if it sent any:
\* "resolver" (resolveRef and the interactable check), "snapshot", "probe",
\* "input" (the action's primitives), "navigate"
Requests(kind, methods) == IF Len(methods) = 0 THEN {} ELSE {kind}

NoRef == RefOf(0)                  \* scroll called without a ref
\* The refs a caller passes: one the registry holds, the first ref ever
\* issued (held or no longer held), or one that was never issued
RefInputs(m) == DOMAIN m \cup {RefOf(1), RefOf(MaxCounter + 1)}

\* getClient() returns the channel when it is connected and throws otherwise
Channel == {"ok", "disconnected", "crashed"}
getClient(ch) == ch = "ok"

\* cdpError(): PAGE_CRASHED if isCrashed(), else CDP_DISCONNECTED
CdpErrorIsDisconnected(ch) == <<"CDP_DISCONNECTED">>

cdpError(ch) == IF ch = "crashed" THEN <<"PAGE_CRASHED">> ELSE <<"CDP_DISCONNECTED">>

\* errorAction / errorSnapshotResult: ok:false, the errors, nothing else
errorAction(errors) ==
    [settled |-> "resolved", ok |-> FALSE, errors |-> errors, consequences |-> <<>>,
     newInteractiveElements |-> <<>>, warnings |-> {}, resolvedBy |-> "none",
     elements |-> <<>>]

\* The promise rejected: an exception left the async function
Rejected ==
    [settled |-> "rejected", ok |-> FALSE, errors |-> <<>>, consequences |-> <<>>,
     newInteractiveElements |-> <<>>, warnings |-> {}, resolvedBy |-> "none",
     elements |-> <<>>]

Pending ==
    [settled |-> "pending", ok |-> FALSE, errors |-> <<>>, consequences |-> <<>>,
     newInteractiveElements |-> <<>>, warnings |-> {}, resolvedBy |-> "none",
     elements |-> <<>>]

NoAct == [kind |-> "none", ref |-> NoRef, ch |-> "ok", known |-> FALSE]

\* No fill primitive has run in this call
NoPrim == [outcome |-> "none"]

ActInit ==
    /\ calls = 0
    /\ pc = "idle"
    /\ act = NoAct
    /\ resolvedBy = "none"
    /\ preSnapshot = <<>>
    /\ postSnapshot = <<>>
    /\ result = Pending
    /\ log = <<>>
    /\ cdpSent = {}
    /\ loadHandlers = {}
    /\ primFact = NoPrim

\* What the resolveRef call of a pipeline met: the ref's identity when it was
\* called and which of its tiers succeeded (tier 2 is tried only after tier 1)
ResolveFacts(m, pg, ref, io) ==
    IF ref \notin DOMAIN m THEN [code |-> "unknown"]
    ELSE [code |-> "known", ref |-> ref, before |-> m[ref],
          tier1 |-> Tier1Ok(m, pg, ref, io),
          tier2 |-> ~Tier1Ok(m, pg, ref, io) /\ Tier2Ok(m, pg, ref, io)]

\* History of an ensureInteractable call: the same, and once the ref is
\* resolved the request that was rejected, the centroid of the first
\* content quad and the requests sent
InteractFacts(m, pg, ref, rio, io) ==
    LET facts == ResolveFacts(m, pg, ref, rio)
    IN  IF facts.code = "unknown" \/ (~facts.tier1 /\ ~facts.tier2) THEN facts
        ELSE [code |-> "known", ref |-> ref, before |-> facts.before,
              tier1 |-> facts.tier1, tier2 |-> facts.tier2,
              fail |-> io.fail, centroid |-> io.centroid,
              sent |-> ensureInteractable(m, pg, ref, rio, io).sent]

\* The function returns (or throws): its promise settles, its locals are gone
Finish(res) ==
    /\ result' = res
    /\ pc' = "done"
    /\ resolvedBy' = "none"
    /\ preSnapshot' = <<>>
    /\ postSnapshot' = <<>>

\* The function goes on to the step `next`, having completed the step `done`
Goto(next, done) ==
    /\ pc' = next
    /\ log' = Append(log, done)
    /\ UNCHANGED result

\* The first step of each pipeline after getClient()
FirstStep(kind, ref) ==
    CASE kind \in {"click", "fill"} -> "interactable"
      [] kind = "pressKey" -> "pre"
      [] kind = "scroll" -> IF ref # NoRef THEN "resolve" ELSE "pre"
      [] kind = "navigate" -> "navigate"
      [] kind = "snapshot" -> "snapshot"

\* click(ref), fill(ref, value), pressKey(key), scroll({ref?, ...}),
\* navigate(url), browser_snapshot: up to the first await
Call ==
    /\ pc = "idle"
    /\ calls < MaxCalls
    /\ calls' = calls + 1
    /\ \E kind \in {"click", "fill", "pressKey", "scroll", "navigate", "snapshot"},
          ref \in RefInputs(refs) \cup {NoRef}, ch \in Channel :
         /\ kind \in {"click", "fill"} => ref # NoRef
         /\ kind \in {"pressKey", "navigate", "snapshot"} => ref = NoRef
         /\ act' = [kind |-> kind, ref |-> ref, ch |-> ch, known |-> ref \in DOMAIN refs]
         /\ IF getClient(ch)
            THEN /\ pc' = FirstStep(kind, ref)
                 /\ UNCHANGED <<result, resolvedBy, preSnapshot, postSnapshot>>
            ELSE Finish(errorAction(cdpError(ch)))
    /\ UNCHANGED <<log, cdpSent>>
    /\ UNCHANGED <<regVars, stabVars, trkVars, wfVars, snapVars, fnVars, chanVars, pageVars, lastResolve>>
    /\ UNCHANGED <<loadHandlers, primFact>>

\* Step 1 of executeWithConsequences: await ensureInteractable(cdp, ref),
\* outside every try block
StepInteractable ==
    /\ pc = "interactable"
    /\ \E call \in {[r |-> ensureInteractable(refs, page, act.ref, rio, io),
                      facts |-> InteractFacts(refs, page, act.ref, rio, io)] :
                       rio \in ResolveIO, io \in InteractIO} :
         LET r == call.r
         IN  /\ refs' = r.refs
             /\ lastResolve' = call.facts
             /\ cdpSent' = cdpSent \cup Requests("resolver", r.sent)
             /\ IF r.code = "THROW"
                THEN Finish(Rejected) /\ UNCHANGED log
                ELSE IF r.code # "ok"
                THEN Finish(errorAction(<<r.code>>)) /\ UNCHANGED log
                ELSE /\ Goto("pre", "interactable")
                     /\ resolvedBy' = r.resolvedBy
                     /\ UNCHANGED <<preSnapshot, postSnapshot>>
    /\ UNCHANGED <<calls, act>>
    /\ UNCHANGED <<counter, issued, regOp, stabVars, trkVars, wfVars, snapVars, fnVars, chanVars, pageVars>>
    /\ UNCHANGED <<loadHandlers, primFact>>

\* scroll with a ref: await resolveRef, then DOM.resolveNode for the objectId
StepResolve ==
    /\ pc = "resolve"
    /\ \E call \in {[r |-> resolveRef(refs, page, act.ref, rio),
                      facts |-> ResolveFacts(refs, page, act.ref, rio)] :
                       rio \in ResolveIO}, objectOk \in BOOLEAN :
         LET r == call.r
         IN  /\ refs' = r.refs
             /\ lastResolve' = call.facts
             /\ IF r.code # "ok"
                THEN /\ Finish(errorAction(<<r.code>>))
                     /\ cdpSent' = cdpSent \cup Requests("resolver", r.sent)
                     /\ UNCHANGED log
                ELSE /\ cdpSent' = cdpSent \cup {"resolver"}
                     /\ IF ~objectOk
                        THEN Finish(errorAction(<<"NOT_INTERACTABLE">>)) /\ UNCHANGED log
                        ELSE /\ Goto("pre", "resolve")
                             /\ resolvedBy' = r.resolvedBy
                             /\ UNCHANGED <<preSnapshot, postSnapshot>>
    /\ UNCHANGED <<calls, act>>
    /\ UNCHANGED <<counter, issued, regOp, stabVars, trkVars, wfVars, snapVars, fnVars, chanVars, pageVars>>
    /\ UNCHANGED <<loadHandlers, primFact>>

\* What a takeSnapshot call leaves in the registry and its history
Snapshotted(snap) ==
    /\ counter' = snap.counter
    /\ refs' = snap.refs
    /\ issued' = issued \cup {RefOf(n) : n \in (counter + 1)..snap.counter}
    /\ cdpSent' = cdpSent \cup {"snapshot"}
    /\ UNCHANGED regOp

\* Pre-snapshot: await takeSnapshot(cdp, { keepExistingRefs: true })
StepPre ==
    /\ pc = "pre"
    /\ counter + SnapshotSize(page) <= MaxCounter
    /\ \E snap \in {takeSnapshot(counter, refs, page, TRUE, io) : io \in SnapshotIO} :
             /\ Snapshotted(snap)
             /\ IF snap.code = "THROW"
                THEN Finish(errorAction(<<"ACTION_FAILED">>)) /\ UNCHANGED log
                ELSE /\ Goto(IF act.kind = "scroll" THEN "probe" ELSE "prim", "pre:keep")
                     /\ preSnapshot' = snap.elements
                     /\ UNCHANGED <<resolvedBy, postSnapshot>>
    /\ lastResolve' = NoResolve
    /\ UNCHANGED <<calls, act>>
    /\ UNCHANGED <<stabVars, trkVars, wfVars, snapVars, fnVars, chanVars, pageVars>>
    /\ UNCHANGED <<loadHandlers, primFact>>

\* scroll: injectLayoutShiftObserver, DOM.getDocument({depth:-1}) (both
\* best effort, inside try blocks) and createMutationTracker
StepProbe ==
    /\ pc = "probe"
    /\ Goto("prim", "probe")
    /\ cdpSent' = cdpSent \cup {"probe"}
    /\ UNCHANGED <<calls, act, resolvedBy, preSnapshot, postSnapshot>>
    /\ UNCHANGED <<regVars, stabVars, trkVars, wfVars, snapVars, fnVars, chanVars, pageVars, lastResolve>>
    /\ UNCHANGED <<loadHandlers, primFact>>

\* What the Runtime.callFunctionOn requests of fill's actionFn do. editable:
\* this.isContentEditable; outcome: "set": the page function ran and the
\* element holds the value, "lost": it ran and the element does not hold the
\* value (a read-only or controlled field), "threw": the page function of the
\* standard path threw, so that result.value is undefined and the value is
\* not set, "rejected": a request rejected.
FillIO ==
    {io \in [editable : BOOLEAN, outcome : {"set", "lost", "threw", "rejected"}] :
       io.outcome = "threw" => ~io.editable}

\* fill's actionFn: "ok", or the code of what it throws ("Error": a rejected
\* request). Only the standard path reads result.result.value.
fillAction(io) ==
    IF io.outcome = "rejected" THEN "Error"
    ELSE IF io.editable THEN "ok"
    ELSE IF io.outcome = "threw" THEN "FILL_FAILED"
    ELSE "ok"

\* catch (e) { return errorAction(desc, [{ code: "ACTION_FAILED", message:
\* e.message }]) }: the code of the exception is not read
catchAction(code) == <<"ACTION_FAILED">>

\* The action's input primitives, inside a try block: a rejected request, a
\* page exception (scroll) or FILL_FAILED (fill) becomes ACTION_FAILED
StepPrim ==
    /\ pc = "prim"
    /\ cdpSent' = cdpSent \cup {"input"}
    /\ IF act.kind = "fill"
       THEN \E io \in FillIO :
              /\ primFact' = [outcome |-> io.outcome]
              /\ IF fillAction(io) # "ok"
                 THEN Finish(errorAction(catchAction(fillAction(io)))) /\ UNCHANGED log
                 ELSE /\ Goto("stab", "prim")
                      /\ UNCHANGED <<resolvedBy, preSnapshot, postSnapshot>>
       ELSE \E thrown \in BOOLEAN :
              /\ UNCHANGED primFact
              /\ IF thrown
                 THEN Finish(errorAction(catchAction("Error"))) /\ UNCHANGED log
                 ELSE /\ Goto("stab", "prim")
                      /\ UNCHANGED <<resolvedBy, preSnapshot, postSnapshot>>
    /\ UNCHANGED <<calls, act>>
    /\ UNCHANGED <<regVars, stabVars, trkVars, wfVars, snapVars, fnVars, chanVars, pageVars, lastResolve>>
    /\ UNCHANGED loadHandlers

\* const stability = await waitForStability(cdp, actionStartTime): it always
\* resolves (StabSpec); what it resolved with is drawn where it is first
\* read, in StepDiff
StepStab ==
    /\ pc = "stab"
    /\ Goto("post", "stab")
    /\ UNCHANGED <<calls, act, resolvedBy, preSnapshot, postSnapshot, cdpSent>>
    /\ UNCHANGED <<regVars, stabVars, trkVars, wfVars, snapVars, fnVars, chanVars, pageVars, lastResolve>>
    /\ UNCHANGED <<loadHandlers, primFact>>

\* Post-snapshot: await takeSnapshot(cdp)
StepPost ==
    /\ pc = "post"
    /\ counter + SnapshotSize(page) <= MaxCounter
    /\ \E snap \in {takeSnapshot(counter, refs, page, FALSE, io) : io \in SnapshotIO \cup RenamedIO} :
             /\ Snapshotted(snap)
             /\ IF snap.code = "THROW"
                THEN Finish(errorAction(<<"ACTION_FAILED">>)) /\ UNCHANGED log
                ELSE /\ Goto("diff", "post:clear")
                     /\ postSnapshot' = snap.elements
                     /\ UNCHANGED <<resolvedBy, preSnapshot>>
    /\ UNCHANGED <<calls, act>>
    /\ UNCHANGED <<stabVars, trkVars, wfVars, snapVars, fnVars, chanVars, pageVars, lastResolve>>
    /\ UNCHANGED <<loadHandlers, primFact>>

\* scroll: the scroll container as the page scripts see it. scrollTop lies
\* in 0..MaxScroll (MaxScroll = scrollHeight - clientHeight), and the browser
\* clamps an assignment to scrollTop to that range.
Directions == {"up", "down"}
ScrollAmounts == {"page", "to-top", "to-bottom", "number"}
clientHeight == 1                  \* what amount "page" scrolls by
Pixels == 2                        \* what a numeric amount scrolls by
Clamp(x) == IF x < 0 THEN 0 ELSE IF x > MaxScroll THEN MaxScroll ELSE x

\* const resolvedIntent = amount === "to-top" ? "up" : amount === "to-bottom"
\* ? "down" : opts.direction
ResolvedIntentIsDirection(amount, direction) == direction

resolvedIntent(amount, direction) ==
    IF amount = "to-top" THEN "up"
    ELSE IF amount = "to-bottom" THEN "down"
    ELSE direction

\* The body both page functions share, on the container they chose
ScrollTarget(scrollTopBefore, direction, amount, fallback) ==
    LET delta == IF amount = "page" THEN clientHeight ELSE Pixels
        assigned == IF amount = "to-top" THEN 0
                    ELSE IF amount = "to-bottom" THEN Max({0, MaxScroll})
                    ELSE scrollTopBefore + (IF direction = "up" THEN 0 - delta ELSE delta)
    IN  [scrollTopBefore |-> scrollTopBefore, scrollTopAfter |-> Clamp(assigned),
         fallback |-> fallback]

\* FIND_AND_SCROLL_FN: found: findScrollable(this) returned a container
FIND_AND_SCROLL_FN(scrollTopBefore, direction, amount, found) ==
    ScrollTarget(scrollTopBefore, direction, amount, ~found)

\* VIEWPORT_SCROLL_FN: fallback: false
VIEWPORT_SCROLL_FN(scrollTopBefore, direction, amount) ==
    ScrollTarget(scrollTopBefore, direction, amount, FALSE)

\* The page function scroll runs: with an objectId (a ref was given) the
\* first, on the viewport the second
scrollScript(hasRef, scrollTopBefore, direction, amount, found) ==
    IF hasRef THEN FIND_AND_SCROLL_FN(scrollTopBefore, direction, amount, found)
    ELSE VIEWPORT_SCROLL_FN(scrollTopBefore, direction, amount)

AtTop == "SCROLL_AT_BOUNDARY: Already at top"
AtBottom == "SCROLL_AT_BOUNDARY: Already at bottom"

\* const warnings = []: the boundary warning, the fallback warning, the
\* stability warning
scrollWarnings(scrollResult, intent, hasRef, timedOut) ==
    (IF scrollResult.scrollTopBefore = scrollResult.scrollTopAfter
     THEN {IF intent = "up" THEN AtTop ELSE AtBottom} ELSE {})
    \cup (IF scrollResult.fallback /\ hasRef THEN {"SCROLL_FALLBACK"} ELSE {})
    \cup (IF timedOut THEN {"STABILITY_TIMEOUT"} ELSE {})

\* The scroll warnings a scroll call can end with, over every position of the
\* container and every direction and amount
ScrollWarningSets(hasRef) ==
    {scrollWarnings(scrollScript(hasRef, top, direction, amount, found),
                    resolvedIntent(amount, direction), hasRef, FALSE) :
       top \in 0..MaxScroll, direction \in Directions, amount \in ScrollAmounts,
       found \in BOOLEAN}

RefScrollWarnings == ScrollWarningSets(TRUE)
ViewportScrollWarnings == ScrollWarningSets(FALSE)

\* scroll: consequences.push({type: "dom-churn"}) if mutations.churnCount > 0,
\* consequences.push({type: "layout-shift"}) if layoutShiftData.cls > 0
scrollConsequences(consequences, churnCount, cls) ==
    consequences
    \o (IF churnCount > 0 THEN <<[type |-> "dom-churn", ref |-> RefOf(0)]>> ELSE <<>>)
    \o (IF cls > 0 THEN <<[type |-> "layout-shift", ref |-> RefOf(0)]>> ELSE <<>>)

\* newInteractiveElements: the post elements an "appeared" consequence names
newInteractiveElements(post, consequences) ==
    LET named == SelectSeq(post, LAMBDA el :
                   \E i \in DOMAIN consequences :
                      consequences[i].type = "appeared" /\ consequences[i].ref = el.ref)
    IN  [i \in DOMAIN named |-> named[i].ref]

\* What the stability wait resolved with: the hard cap or not, and the
\* network events it collected (none, or one finished request; the
\* loadingFinished and loadingFailed events carry no response)
StabilityResults ==
    [timedOut : BOOLEAN,
     networkEvents : {<<>>, <<[requestId |-> "r1", status |-> Undef]>>}]

\* The ok:true ActionResult
OkActionTimeoutFails(post, consequences, warnings, by) ==
    [settled |-> "resolved", ok |-> "STABILITY_TIMEOUT" \notin warnings,
     errors |-> IF "STABILITY_TIMEOUT" \in warnings THEN <<"STABILITY_TIMEOUT">> ELSE <<>>,
     consequences |-> consequences,
     newInteractiveElements |-> newInteractiveElements(post, consequences),
     warnings |-> warnings, resolvedBy |-> by,
     elements |-> <<>>]

okAction(post, consequences, warnings, by) ==
    [settled |-> "resolved", ok |-> TRUE, errors |-> <<>>,
     consequences |-> consequences,
     newInteractiveElements |-> newInteractiveElements(post, consequences),
     warnings |-> warnings, resolvedBy |-> by,
     elements |-> <<>>]

\* diffSnapshots, the warnings and the ok:true envelope; scroll appends its
\* dom-churn and layout-shift consequences and its own warnings
StepDiff ==
    /\ pc = "diff"
    /\ log' = Append(log, "diff")
    /\ \E stability \in StabilityResults, churnCount \in 0..1, cls \in 0..1,
          w \in (IF act.kind # "scroll" THEN {{}}
                 ELSE IF act.ref # NoRef THEN RefScrollWarnings
                 ELSE ViewportScrollWarnings) :
         /\ act.kind # "scroll" => churnCount = 0 /\ cls = 0
         /\ \E consequences \in
                {diffSnapshots(preSnapshot, postSnapshot, stability.networkEvents)} :
              Finish(okAction(postSnapshot,
                              IF act.kind = "scroll"
                              THEN scrollConsequences(consequences, churnCount, cls)
                              ELSE consequences,
                              w \cup (IF stability.timedOut THEN {"STABILITY_TIMEOUT"}
                                      ELSE {}),
                              resolvedBy))
    /\ UNCHANGED <<calls, act, cdpSent>>
    /\ UNCHANGED <<regVars, stabVars, trkVars, wfVars, snapVars, fnVars, chanVars, pageVars, lastResolve>>
    /\ UNCHANGED <<loadHandlers, primFact>>

\* navigate up to `await cdp.send("Page.navigate", { url })`: the handler of
\* loadPromise is subscribed, the request is sent and resolves or rejects; a
\* rejection goes to the catch block
StepNavigate ==
    /\ pc = "navigate"
    /\ loadHandlers' = loadHandlers \cup {calls}
    /\ cdpSent' = cdpSent \cup {"navigate"}
    /\ \E sent \in BOOLEAN :
         IF sent
         THEN /\ pc' = "load"
              /\ UNCHANGED <<result, resolvedBy, preSnapshot, postSnapshot>>
         ELSE Finish(errorAction(<<"ACTION_FAILED">>))
    /\ UNCHANGED <<calls, act, log, primFact>>
    /\ UNCHANGED <<regVars, stabVars, trkVars, wfVars, snapVars, fnVars, chanVars, pageVars, lastResolve>>

\* Page.loadEventFired: every subscribed handler unsubscribes itself and
\* resolves its loadPromise
loadEventFired(handlers) == {}

\* The registry after the race: markAllStale() and the clearAll() of
\* takeSnapshot run once the load event has won, and not otherwise
MarkStaleBeforeRace(loaded, c, m) ==
    IF loaded THEN clearAll(c, markAllStale(m)).refs ELSE markAllStale(m)

afterRace(loaded, c, m) ==
    IF loaded THEN clearAll(c, markAllStale(m)).refs ELSE m

\* await Promise.race([loadPromise, the 30000 ms timer]): the load event
\* comes first, then markAllStale() and takeSnapshot up to its first await,
\* i.e. its clearAll(); or the timer rejects and the catch block returns
StepLoad ==
    /\ pc = "load"
    /\ \E loaded \in BOOLEAN :
         /\ refs' = afterRace(loaded, counter, refs)
         /\ IF loaded
            THEN /\ loadHandlers' = loadEventFired(loadHandlers)
                 /\ page' = [p \in Paths |-> NoNode]
                 /\ Goto("navSnapshot", "navigate")
                 /\ UNCHANGED <<resolvedBy, preSnapshot, postSnapshot>>
            ELSE /\ Finish(errorAction(<<"ACTION_FAILED">>))
                 /\ UNCHANGED <<page, log, loadHandlers>>
    /\ UNCHANGED <<calls, act, cdpSent, primFact>>
    /\ UNCHANGED <<counter, issued, regOp, nextId, stabVars, trkVars, wfVars, snapVars, fnVars, chanVars, lastResolve>>

\* The page fires its load event between two tool calls, after a navigate
\* stopped waiting for it
LateLoad ==
    /\ pc = "idle"
    /\ loadHandlers # {}
    /\ loadHandlers' = loadEventFired(loadHandlers)
    /\ UNCHANGED <<calls, pc, act, resolvedBy, preSnapshot, postSnapshot, result, log,
                   cdpSent, primFact>>
    /\ UNCHANGED <<regVars, stabVars, trkVars, wfVars, snapVars, fnVars, chanVars, pageVars, lastResolve>>

\* The ok:true SnapshotResult of snapshotDataToResult
snapshotDataToResult(elements) ==
    [settled |-> "resolved", ok |-> TRUE, errors |-> <<>>, consequences |-> <<>>,
     newInteractiveElements |-> <<>>, warnings |-> {}, resolvedBy |-> "none",
     elements |-> elements]

\* navigate: the rest of takeSnapshot, inside navigate's try block
StepNavSnapshot ==
    /\ pc = "navSnapshot"
    /\ counter + SnapshotSize(page) <= MaxCounter
    /\ \E snap \in {takeSnapshot(counter, refs, page, FALSE, io) : io \in SnapshotIO} :
             /\ Snapshotted(snap)
             /\ IF snap.code = "THROW"
                THEN Finish(errorAction(<<"ACTION_FAILED">>)) /\ UNCHANGED log
                ELSE /\ Finish(snapshotDataToResult(snap.elements))
                     /\ log' = Append(log, "post:clear")
    /\ UNCHANGED <<calls, act>>
    /\ UNCHANGED <<stabVars, trkVars, wfVars, snapVars, fnVars, chanVars, pageVars, lastResolve>>
    /\ UNCHANGED <<loadHandlers, primFact>>

\* browser_snapshot: takeSnapshot(cdp) inside the handler's try block, whose
\* catch reports PAGE_CRASHED or CDP_DISCONNECTED by isCrashed()
StepSnapshot ==
    /\ pc = "snapshot"
    /\ counter + SnapshotSize(page) <= MaxCounter
    /\ \E io \in SnapshotIO, ch \in Channel \ {"ok"} :
         LET snap == takeSnapshot(counter, refs, page, FALSE, io)
         IN  /\ Snapshotted(snap)
             /\ IF snap.code = "THROW"
                THEN Finish(errorAction(cdpError(ch))) /\ UNCHANGED log
                ELSE /\ Finish(snapshotDataToResult(snap.elements))
                     /\ log' = Append(log, "post:clear")
    /\ UNCHANGED <<calls, act>>
    /\ UNCHANGED <<stabVars, trkVars, wfVars, snapVars, fnVars, chanVars, pageVars, lastResolve>>
    /\ UNCHANGED <<loadHandlers, primFact>>

\* The caller has the result; the next tool call may start
Return ==
    /\ pc = "done"
    /\ pc' = "idle"
    /\ act' = NoAct
    /\ UNCHANGED calls
    /\ result' = Pending
    /\ log' = <<>>
    /\ cdpSent' = {}
    /\ lastResolve' = NoResolve
    /\ primFact' = NoPrim
    /\ UNCHANGED <<resolvedBy, preSnapshot, postSnapshot>>
    /\ UNCHANGED <<regVars, stabVars, trkVars, wfVars, snapVars, fnVars, chanVars, pageVars>>
    /\ UNCHANGED loadHandlers

\* The page changes at any time, by itself or as an effect of input. Only the
\* next step that queries the page can tell when: a change is taken right
\* before such a step (or between two actions).
PageStep ==
    /\ pc \in {"idle", "pre", "post", "navSnapshot"}
    /\ PageChange
    /\ UNCHANGED <<regVars, stabVars, trkVars, wfVars, snapVars, fnVars, chanVars, lastResolve, actVars>>

-----------------------------------------------------------------------------
(* actions/engine.ts: waitFor                                              *)

\* Time is counted in poll intervals (const pollInterval = 500); a timeout
\* is a whole number of them. An omitted timeout is 10000 ms, 20 intervals.
NoPoll ==
    [thrown |-> FALSE, text |-> FALSE, ref |-> FALSE, resolved |-> FALSE,
     box |-> FALSE, returned |-> <<>>]

WfInit ==
    /\ wfElapsed = 0
    /\ wfPolls = 0
    /\ wfLast = NoPoll
    /\ wfKept = TRUE

\* ok:false, elements: [], errors: [{ code: "WAIT_TIMEOUT", ... }]
WaitTimeout == errorAction(<<"WAIT_TIMEOUT">>)

\* while (Date.now() - start < timeout)
LoopNeverExpires(elapsed, timeout) == TRUE

InLoop(elapsed, timeout) == elapsed < timeout

\* The body of the loop after `await takeSnapshot(cdp)` has settled with
\* snap, up to the sleep: the text check on the data, resolveRef(cdp,
\* opts.ref) and DOM.getBoxModel. textFound: the text occurs in the title, a
\* name or a value of the snapshot; boxOk: DOM.getBoxModel goes through. A
\* throw anywhere is caught: the poll failed.
pollOnce(snap, pg, opts, rio, textFound, boxOk) ==
    LET thrown == snap.code = "THROW"
        asked == ~thrown /\ opts.ref # NoRef
        r == resolveRef(snap.refs, pg, opts.ref, rio)
        resolved == asked /\ r.code = "ok"
        textSatisfied == ~thrown /\ (opts.text => textFound)
        refSatisfied == ~thrown /\ (opts.ref # NoRef => (resolved /\ boxOk))
    IN  [counter |-> snap.counter,
         refs |-> IF asked THEN r.refs ELSE snap.refs,
         elements |-> snap.elements,
         sent |-> {"snapshot"} \cup (IF asked THEN Requests("resolver", r.sent) ELSE {}),
         satisfied |-> textSatisfied /\ refSatisfied,
         kept |-> /\ ~thrown
                  /\ NodeExists(pg, opts.node)
                  /\ boxOk
                  /\ rio.resolveNode
                  /\ opts.text => textFound,
         fact |-> [thrown |-> thrown, text |-> textSatisfied, ref |-> refSatisfied,
                   resolved |-> resolved, box |-> resolved /\ boxOk,
                   returned |-> IF textSatisfied /\ refSatisfied THEN snap.elements
                                ELSE <<>>]]

\* The refs a caller waits for: none, one the registry holds, one that was
\* never issued, or the one the next assignRef will issue
WaitRefs(c, m) == DOMAIN m \cup {NoRef, RefOf(c + 1), RefOf(MaxCounter + 1)}

\* waitFor({ text?, ref?, timeout }): up to the first await
WaitCall ==
    /\ pc = "idle"
    /\ calls < MaxCalls
    /\ calls' = calls + 1
    /\ \E ref \in WaitRefs(counter, refs), text \in BOOLEAN,
          timeout \in 1..MaxPolls, ch \in Channel :
         /\ act' = [kind |-> "waitFor", ref |-> ref, ch |-> ch,
                    known |-> ref \in DOMAIN refs, text |-> text, timeout |-> timeout,
                    node |-> IF ref \in DOMAIN refs THEN refs[ref].backendNodeId ELSE 0]
         /\ IF ~getClient(ch) THEN Finish(errorAction(cdpError(ch)))
            ELSE IF InLoop(0, timeout)
            THEN /\ pc' = "poll"
                 /\ UNCHANGED <<result, resolvedBy, preSnapshot, postSnapshot>>
            ELSE Finish(WaitTimeout)
    /\ wfElapsed' = 0
    /\ wfPolls' = 0
    /\ wfLast' = NoPoll
    /\ wfKept' = TRUE
    /\ UNCHANGED <<log, cdpSent>>
    /\ UNCHANGED <<regVars, stabVars, trkVars, pageVars, lastResolve>>
    /\ UNCHANGED <<loadHandlers, primFact>>
    /\ UNCHANGED <<snapVars, fnVars, chanVars>>

\* What the requests of a poll are tried with: a snapshot that goes through
\* or throws before or after its assignRef calls, every node with its own
\* domPath and AX id; a resolveRef whose tiers each go through or reject
PollIO ==
    {io \in SnapshotIO :
       /\ io.noPath = {}
       /\ io.mode = "ax"
       /\ io.fail \in {"none", "Accessibility.getFullAXTree", "Page.getLayoutMetrics"}}

PollResolveIO ==
    {rio \in ResolveIO :
       /\ rio.ax = "node"
       /\ rio.lookup \in {"none", "DOM.querySelector"}
       /\ rio.resolveNode => rio.lookup = "none"}

\* One iteration of the loop
WaitPoll ==
    /\ pc = "poll"
    /\ counter + SnapshotSize(page) <= MaxCounter
    /\ \E io \in PollIO :
       \E snap \in {takeSnapshot(counter, refs, page, FALSE, io)} :
       \E rio \in PollResolveIO, textFound \in BOOLEAN, boxOk \in BOOLEAN :
       \E p \in {pollOnce(snap, page, act, rio, textFound, boxOk)} :
             /\ counter' = p.counter
             /\ refs' = p.refs
             /\ issued' = issued \cup {RefOf(n) : n \in (counter + 1)..p.counter}
             /\ cdpSent' = cdpSent \cup p.sent
             /\ wfPolls' = wfPolls + 1
             /\ wfLast' = p.fact
             /\ wfKept' = (wfKept /\ p.kept)
             /\ IF p.satisfied
                THEN Finish(snapshotDataToResult(p.elements))
                ELSE /\ pc' = "sleep"
                     /\ UNCHANGED <<result, resolvedBy, preSnapshot, postSnapshot>>
    /\ UNCHANGED <<calls, act, log, regOp, wfElapsed>>
    /\ UNCHANGED <<stabVars, trkVars, pageVars, lastResolve>>
    /\ UNCHANGED <<loadHandlers, primFact>>
    /\ UNCHANGED <<snapVars, fnVars, chanVars>>

\* await sleep(pollInterval), then the loop condition
WaitSleep ==
    /\ pc = "sleep"
    /\ wfElapsed' = wfElapsed + 1
    /\ IF InLoop(wfElapsed + 1, act.timeout)
       THEN /\ pc' = "poll"
            /\ UNCHANGED <<result, resolvedBy, preSnapshot, postSnapshot>>
       ELSE Finish(WaitTimeout)
    /\ UNCHANGED <<calls, act, log, cdpSent, wfPolls, wfLast, wfKept>>
    /\ UNCHANGED <<regVars, stabVars, trkVars, pageVars, lastResolve>>
    /\ UNCHANGED <<loadHandlers, primFact>>
    /\ UNCHANGED <<snapVars, fnVars, chanVars>>

\* The caller has the SnapshotResult
WaitReturn ==
    /\ pc = "done"
    /\ pc' = "idle"
    /\ act' = NoAct
    /\ result' = Pending
    /\ cdpSent' = {}
    /\ wfElapsed' = 0
    /\ wfPolls' = 0
    /\ wfLast' = NoPoll
    /\ wfKept' = TRUE
    /\ UNCHANGED <<calls, log, resolvedBy, preSnapshot, postSnapshot>>
    /\ UNCHANGED <<regVars, stabVars, trkVars, pageVars, lastResolve>>
    /\ UNCHANGED <<loadHandlers, primFact>>
    /\ UNCHANGED <<snapVars, fnVars, chanVars>>

\* The page changes between two tool calls and while waitFor sleeps
WaitPage ==
    /\ pc \in {"idle", "sleep"}
    /\ PageChange
    /\ UNCHANGED <<regVars, stabVars, trkVars, wfVars, snapVars, fnVars, chanVars, lastResolve, actVars>>

WaitNext ==
    \/ WaitCall
    \/ WaitPoll
    \/ WaitSleep
    \/ WaitReturn
    \/ WaitPage

-----------------------------------------------------------------------------
(* cdp/client.ts: the channel                                              *)

ChanInit ==
    /\ client = FALSE
    /\ crashed = FALSE
    /\ crashSeen = FALSE

\* What getClient() makes of the module's state: it throws PAGE_CRASHED when
\* crashed, CDP_DISCONNECTED when there is no client, and returns the client
\* otherwise
channel(cl, cr) == IF cr THEN "crashed" ELSE IF cl THEN "ok" ELSE "disconnected"

\* connect(): `if (client) return client`; otherwise Chrome is launched and
\* the client set up, or an await rejects before `client` is assigned. Here
\* and below the channel is operated between two tool calls.
connect ==
    /\ pc = "idle"
    /\ IF client THEN UNCHANGED client
       ELSE \E launched \in BOOLEAN : client' = launched
    /\ UNCHANGED <<crashed, crashSeen>>
    /\ UNCHANGED <<regVars, stabVars, trkVars, pageVars, lastResolve, actVars, wfVars,
                   snapVars, fnVars>>

\* client.close(): await raw.close(), then client = null
close ==
    /\ pc = "idle"
    /\ client
    /\ \E closed \in BOOLEAN : client' = ~closed
    /\ UNCHANGED <<crashed, crashSeen>>
    /\ UNCHANGED <<regVars, stabVars, trkVars, pageVars, lastResolve, actVars, wfVars,
                   snapVars, fnVars>>

\* disconnect(): the client is closed and dropped, Chrome is killed if it was
\* launched, crashed = false; a rejected chrome.kill() leaves the flag
disconnect ==
    /\ pc = "idle"
    /\ client' = FALSE
    /\ \E killed \in BOOLEAN : crashed' = IF killed THEN FALSE ELSE crashed
    /\ UNCHANGED crashSeen
    /\ UNCHANGED <<regVars, stabVars, trkVars, pageVars, lastResolve, actVars, wfVars,
                   snapVars, fnVars>>

\* client.on("Inspector.targetCrashed", () => { crashed = true; })
targetCrashed ==
    /\ pc = "idle"
    /\ client
    /\ crashed' = TRUE
    /\ crashSeen' = TRUE
    /\ UNCHANGED client
    /\ UNCHANGED <<regVars, stabVars, trkVars, pageVars, lastResolve, actVars, wfVars,
                   snapVars, fnVars>>

\* A tool call finds the channel as the operations above left it
ChanCall ==
    /\ Call \/ WaitCall
    /\ act'.ch = channel(client, crashed)

ChanReturn ==
    /\ pc = "done"
    /\ IF act.kind = "waitFor" THEN WaitReturn ELSE Return

ChanNext ==
    \/ connect
    \/ close
    \/ disconnect
    \/ targetCrashed
    \/ ChanCall
    \/ ChanReturn
    \/ StepInteractable
    \/ StepResolve
    \/ StepPre
    \/ StepProbe
    \/ StepPrim
    \/ StepStab
    \/ StepPost
    \/ StepDiff
    \/ StepNavigate
    \/ StepLoad
    \/ LateLoad
    \/ StepNavSnapshot
    \/ StepSnapshot
    \/ PageStep
    \/ WaitPoll
    \/ WaitSleep

Next ==
    \/ Call
    \/ StepInteractable
    \/ StepResolve
    \/ StepPre
    \/ StepProbe
    \/ StepPrim
    \/ StepStab
    \/ StepPost
    \/ StepDiff
    \/ StepNavigate
    \/ StepLoad
    \/ LateLoad
    \/ StepNavSnapshot
    \/ StepSnapshot
    \/ Return
    \/ PageStep

-----------------------------------------------------------------------------
(* ScrollSpec: the page function of scroll and the warnings, on a scroll   *)
(* container at any position                                               *)

NoScroll == [amount |-> "none"]

ScrollInit ==
    /\ scrollTop = 0
    /\ scrollCall = NoScroll

\* scroll({ref?, direction, amount}) from the page function to the warnings
\* of the ok:true result
ScrollRun ==
    /\ scrollCall = NoScroll
    /\ \E hasRef \in BOOLEAN, direction \in Directions, amount \in ScrollAmounts,
          found \in BOOLEAN, timedOut \in BOOLEAN :
         \E scrollResult \in {scrollScript(hasRef, scrollTop, direction, amount, found)} :
           /\ scrollTop' = scrollResult.scrollTopAfter
           /\ scrollCall' = [hasRef |-> hasRef, direction |-> direction,
                             amount |-> amount, timedOut |-> timedOut,
                             scrollResult |-> scrollResult,
                             warnings |-> scrollWarnings(scrollResult,
                                            resolvedIntent(amount, direction),
                                            hasRef, timedOut)]
    /\ UNCHANGED <<regVars, stabVars, trkVars, pageVars, lastResolve, actVars, wfVars,
                   snapVars, chanVars, diffVars, tailVars, keyVars, raceVars, navVars>>

\* The caller has the result
ScrollReturn ==
    /\ scrollCall # NoScroll
    /\ scrollCall' = NoScroll
    /\ UNCHANGED scrollTop
    /\ UNCHANGED <<regVars, stabVars, trkVars, pageVars, lastResolve, actVars, wfVars,
                   snapVars, chanVars, diffVars, tailVars, keyVars, raceVars, navVars>>

ScrollNext == ScrollRun \/ ScrollReturn

-----------------------------------------------------------------------------
(* DiffSpec, ChangeSpec: diffSnapshots (and the consequences scroll adds)  *)
(* on any two snapshots                                                    *)

\* What an element shows besides its identity
Label(role, name, properties) == [role |-> role, name |-> name, properties |-> properties]
Checked(value) == [key \in {"checked"} |-> value]
Plain == Label("button", "a", Checked("true"))
Renamed == Label("button", "b", Checked("true"))
OtherRole == Label("link", "a", Checked("true"))
Unchecked == Label("button", "a", Checked("false"))
NoKey == Label("button", "a", NoProperties)
ExtraKey == Label("button", "a", [key \in {"checked", "disabled"} |-> "true"])

SnapshotElement(ref, axNodeId, domPath, label) ==
    [ref |-> ref, axNodeId |-> axNodeId, domPath |-> domPath, role |-> label.role,
     name |-> label.name, properties |-> label.properties]

NoDiff == [kind |-> "none"]

DiffInit ==
    /\ diffPre = <<>>
    /\ diffPost = <<>>
    /\ diffOut = NoDiff

\* scroll has not been called
NoRun == [layoutShiftEnabled |-> FALSE, actionError |-> FALSE, steps |-> <<>>]

TailInit ==
    /\ scrollPc = "idle"
    /\ scrollRun = NoRun

\* pressKey has not been called
NoKeyRun == [keyStr |-> "none"]

KeyInit ==
    /\ keyPc = "idle"
    /\ keyRun = NoKeyRun

RaceInit == earlyRequests = {}

\* navigate has not been called and the page is not loading
NoNav == [handlers |-> 0, subscribed |-> FALSE, earlier |-> 0, own |-> "none",
          resolved |-> "none", snapshot |-> "none", result |-> "none"]

NavInit ==
    /\ navPc = "idle"
    /\ navRun = NoNav

FnInit == ScrollInit /\ DiffInit /\ TailInit /\ KeyInit /\ RaceInit /\ NavInit

\* The pre-snapshot gets one more element: its ref is the next the registry
\* issues, its axNodeId (0: none) and domPath may repeat those of another
\* element
AddPre(axNodeIds, paths, labels, max) ==
    /\ diffOut = NoDiff
    /\ diffPost = <<>>
    /\ Len(diffPre) < max
    /\ \E axNodeId \in axNodeIds, domPath \in paths, label \in labels :
         diffPre' = Append(diffPre, SnapshotElement(RefOf(Len(diffPre) + 1), axNodeId,
                                                    domPath, label))
    /\ UNCHANGED <<diffPost, diffOut>>

\* The refs of a snapshot's elements
RefsOf(elements) == {elements[i].ref : i \in DOMAIN elements}

\* The post-snapshot gets one more element: its ref is one the pre-snapshot
\* showed (the registry found the element again) or the next it issues
AddPost(axNodeIds, paths, labels, max) ==
    /\ diffOut = NoDiff
    /\ Len(diffPre) + Len(diffPost) < max
    /\ \E axNodeId \in axNodeIds, domPath \in paths, label \in labels,
          ref \in (RefsOf(diffPre) \cup {RefOf(Len(diffPre) + Len(diffPost) + 1)})
                  \ RefsOf(diffPost) :
         diffPost' = Append(diffPost, SnapshotElement(ref, axNodeId, domPath, label))
    /\ UNCHANGED <<diffPre, diffOut>>

\* The post-snapshot of a page the action did not change: the elements of the
\* pre-snapshot in the same order, each under the next ref the registry issues
SamePost(max) ==
    /\ diffOut = NoDiff
    /\ diffPre # <<>>
    /\ diffPost = <<>>
    /\ 2 * Len(diffPre) <= max
    /\ diffPost' = [i \in DOMAIN diffPre |->
                      [diffPre[i] EXCEPT !.ref = RefOf(Len(diffPre) + i)]]
    /\ UNCHANGED <<diffPre, diffOut>>

\* The network events of a stability wait: none, one that carries a status,
\* one that carries none
DiffEvents ==
    {<<>>, <<[requestId |-> "r1", status |-> "200"]>>,
     <<[requestId |-> "r1", status |-> Undef]>>}

\* const consequences = diffSnapshots(preSnapshot, postSnapshot,
\* stability.networkEvents) in executeWithConsequences
DiffAction ==
    /\ diffOut = NoDiff
    /\ \E events \in DiffEvents :
         diffOut' = [kind |-> "action", events |-> events, churnCount |-> 0, cls |-> 0,
                     match |-> matchElements(diffPre, diffPost),
                     consequences |-> diffSnapshots(diffPre, diffPost, events)]
    /\ UNCHANGED <<diffPre, diffPost>>

\* The same in scroll, followed by the dom-churn and layout-shift pushes
DiffScroll ==
    /\ diffOut = NoDiff
    /\ \E events \in DiffEvents, churnCount \in 0..1, cls \in 0..1 :
         diffOut' = [kind |-> "scroll", events |-> events, churnCount |-> churnCount,
                     cls |-> cls,
                     match |-> matchElements(diffPre, diffPost),
                     consequences |-> scrollConsequences(
                                        diffSnapshots(diffPre, diffPost, events),
                                        churnCount, cls)]
    /\ UNCHANGED <<diffPre, diffPost>>

\* The caller has the consequences; other snapshots come next
DiffReturn ==
    /\ diffOut # NoDiff
    /\ diffPre' = <<>>
    /\ diffPost' = <<>>
    /\ diffOut' = NoDiff

DiffOthers ==
    UNCHANGED <<regVars, stabVars, trkVars, pageVars, lastResolve, actVars, wfVars,
                snapVars, chanVars, scrollVars, tailVars, keyVars, raceVars, navVars>>

\* DiffSpec: snapshots whose elements repeat axNodeIds and domPaths; what the
\* second snapshot shows has been renamed
DiffAddPre == AddPre(0..1, {"p1", "p2"}, {Plain}, MaxElements) /\ DiffOthers
DiffAddPost == AddPost(0..1, {"p1", "p2"}, {Renamed}, MaxElements) /\ DiffOthers
DiffNext ==
    \/ DiffAddPre
    \/ DiffAddPost
    \/ SamePost(MaxElements) /\ DiffOthers
    \/ DiffAction /\ DiffOthers
    \/ DiffScroll /\ DiffOthers
    \/ DiffReturn /\ DiffOthers

\* ChangeSpec: snapshots whose elements differ in what they show
ChangeAddPre == AddPre({0}, {"p1", "p2"}, {Plain, NoKey}, MaxPairs) /\ DiffOthers
ChangeAddPost ==
    AddPost({0}, {"p1", "p2"}, {Plain, Renamed, OtherRole, Unchecked, NoKey, ExtraKey},
            MaxPairs) /\ DiffOthers
ChangeNext ==
    \/ ChangeAddPre
    \/ ChangeAddPost
    \/ DiffAction /\ DiffOthers
    \/ DiffReturn /\ DiffOthers

-----------------------------------------------------------------------------
(* TailSpec: scroll from its pre-snapshot to its return, with the          *)
(* standalone mutation tracker it creates                                  *)

\* The try / catch / finally of scroll and what follows it: the step that
\* runs after `step`, which failed or not (after "stop": actionError is set)
ScrollFlowCatchReturns(step, failed) ==
    IF step = "clear" THEN (IF failed THEN "done" ELSE "primitive")
    ELSE IF step = "primitive" THEN (IF failed THEN "done" ELSE "stability")
    ELSE IF step = "stability" THEN "collect"
    ELSE IF step = "collect" THEN "stop"
    ELSE IF step = "stop" THEN (IF failed THEN "done" ELSE "post")
    ELSE "done"

scrollFlow(step, failed) ==
    IF step = "clear" THEN (IF failed THEN "collect" ELSE "primitive")
    ELSE IF step = "primitive" THEN (IF failed THEN "collect" ELSE "stability")
    ELSE IF step = "stability" THEN "collect"
    ELSE IF step = "collect" THEN "stop"
    ELSE IF step = "stop" THEN (IF failed THEN "done" ELSE "post")
    ELSE "done"

\* History: step has completed; tracking: the tracker's handlers are
\* subscribed after it
TailStep(step, failed, tracking) ==
    Append(scrollRun.steps, [step |-> step, failed |-> failed, tracking |-> tracking])

TailOthers ==
    UNCHANGED <<regVars, stabVars, pageVars, lastResolve, actVars, wfVars, snapVars,
                chanVars, scrollVars, diffVars, keyVars,
                raceVars, navVars>>

\* layoutShiftEnabled = await injectLayoutShiftObserver(cdp) (false when it
\* throws), then DOM.getDocument, best-effort
TailInject ==
    /\ scrollPc = "idle"
    /\ trkPc = "idle"
    /\ \E enabled \in BOOLEAN :
         scrollRun' = [layoutShiftEnabled |-> enabled, actionError |-> FALSE,
                       steps |-> TailStep("inject", FALSE, FALSE)]
    /\ scrollPc' = "tracker"
    /\ UNCHANGED trkVars

\* const mutationTracker = createMutationTracker(cdp)
TailTracker ==
    /\ scrollPc = "tracker"
    /\ createMutationTracker
    /\ scrollRun' = [scrollRun EXCEPT !.steps = TailStep("tracker", FALSE, TRUE)]
    /\ scrollPc' = "clear"

\* if (layoutShiftEnabled) await clearLayoutShiftAccumulator(cdp)
TailClear ==
    /\ scrollPc = "clear"
    /\ \E thrown \in BOOLEAN :
         /\ thrown => scrollRun.layoutShiftEnabled
         /\ scrollRun' = [scrollRun EXCEPT !.actionError = thrown,
                                           !.steps = TailStep("clear", thrown, TRUE)]
         /\ scrollPc' = scrollFlow("clear", thrown)
    /\ UNCHANGED trkVars

\* Runtime.callFunctionOn / Runtime.evaluate of the scroll function: the
\* request is rejected, or the reply has exceptionDetails or no value
TailPrimitive ==
    /\ scrollPc = "primitive"
    /\ \E outcome \in {"value", "rejected", "exceptionDetails", "noValue"} :
         /\ scrollRun' = [scrollRun EXCEPT !.actionError = (outcome # "value"),
                                           !.steps = TailStep("primitive",
                                                              outcome # "value", TRUE)]
         /\ scrollPc' = scrollFlow("primitive", outcome # "value")
    /\ UNCHANGED trkVars

\* stability = await waitForStability(cdp, actionStartTime)
TailStability ==
    /\ scrollPc = "stability"
    /\ scrollRun' = [scrollRun EXCEPT !.steps = TailStep("stability", FALSE, TRUE)]
    /\ scrollPc' = scrollFlow("stability", FALSE)
    /\ UNCHANGED trkVars

\* finally: layoutShiftData = await collectAndDisconnectLayoutShiftObserver(cdp),
\* null when it throws
TailCollect ==
    /\ scrollPc = "collect"
    /\ \E thrown \in BOOLEAN :
         /\ thrown => scrollRun.layoutShiftEnabled
         /\ scrollRun' = [scrollRun EXCEPT !.steps = TailStep("collect", thrown, TRUE)]
    /\ scrollPc' = scrollFlow("collect", FALSE)
    /\ UNCHANGED trkVars

\* const mutations = mutationTracker.stop(); if (actionError) return errorAction(...)
TailStop ==
    /\ scrollPc = "stop"
    /\ TrkStop
    /\ scrollRun' = [scrollRun EXCEPT !.steps = TailStep("stop", FALSE, FALSE)]
    /\ scrollPc' = scrollFlow("stop", scrollRun.actionError)

\* postSnapshot = await takeSnapshot(cdp), then the result; ACTION_FAILED
\* when the snapshot throws
TailPost ==
    /\ scrollPc = "post"
    /\ \E thrown \in BOOLEAN :
         /\ scrollRun' = [scrollRun EXCEPT !.steps = TailStep("post", thrown,
                                                              trkPc = "tracking")]
    /\ scrollPc' = scrollFlow("post", FALSE)
    /\ UNCHANGED trkVars

\* The caller has the result; the next scroll starts
TailReturn ==
    /\ scrollPc = "done"
    /\ scrollPc' = "idle"
    /\ scrollRun' = NoRun
    /\ trkPc' = "idle"
    /\ parentInsertions' = EmptyCounts
    /\ parentRemovals' = EmptyCounts
    /\ trkEvents' = <<>>
    /\ trkRecord' = NoRecord

\* A DOM event reaches the tracker's handlers while they are subscribed
TailEvent ==
    /\ onInserted \/ onRemoved
    /\ UNCHANGED tailVars

TailNext ==
    /\ \/ TailInject
       \/ TailTracker
       \/ TailClear
       \/ TailPrimitive
       \/ TailStability
       \/ TailCollect
       \/ TailStop
       \/ TailPost
       \/ TailReturn
       \/ TailEvent
    /\ TailOthers

-----------------------------------------------------------------------------
(* KeySpec: pressKey(keyStr) from its call to its result                   *)

\* keyStr.split("+"): the parts before the last, and the last. A keyStr of
\* "+" alone has the last part ""
ModifierParts == {"Control", "shift", "alt", "cmd", "fn"}
MainKeys == {"a", "Enter", "space", "", "ab"}

\* String.prototype.toLowerCase on the strings above
toLowerCase(str) ==
    IF str = "Control" THEN "control"
    ELSE IF str = "Enter" THEN "enter"
    ELSE str

\* const KEY_MAP: the key of the entry, "undefined" without one
KEY_MAP(name) ==
    IF name = "enter" THEN "Enter"
    ELSE IF name = "space" THEN " "
    ELSE Undef

\* (ctrlKey ? 2 : 0) | (altKey ? 1 : 0) | (shiftKey ? 8 : 0) | (metaKey ? 4 : 0)
modifiers(ctrlKey, altKey, shiftKey, metaKey) ==
    (IF ctrlKey THEN 2 ELSE 0) + (IF altKey THEN 1 ELSE 0)
    + (IF shiftKey THEN 8 ELSE 0) + (IF metaKey THEN 4 ELSE 0)

\* function parseKeyCombo(keyStr)
parseKeyCombo(parts, mainKey) ==
    LET lower == {toLowerCase(mod) : mod \in parts}
        ctrlKey == lower \cap {"control", "ctrl"} # {}
        shiftKey == "shift" \in lower
        altKey == "alt" \in lower
        metaKey == lower \cap {"meta", "command", "cmd"} # {}
        mapped == KEY_MAP(toLowerCase(mainKey))
    IN  [key |-> IF mapped # Undef THEN mapped ELSE mainKey,
         modifiers |-> modifiers(ctrlKey, altKey, shiftKey, metaKey),
         ctrlKey |-> ctrlKey, shiftKey |-> shiftKey, altKey |-> altKey,
         metaKey |-> metaKey]

\* if (parsed.key.length === 1 && !parsed.ctrlKey && !parsed.altKey && !parsed.metaKey)
SendsCharUnshifted(parsed) ==
    Len(parsed.key) = 1 /\ ~parsed.ctrlKey /\ ~parsed.altKey /\ ~parsed.metaKey
    /\ ~parsed.shiftKey

sendsChar(parsed) ==
    Len(parsed.key) = 1 /\ ~parsed.ctrlKey /\ ~parsed.altKey /\ ~parsed.metaKey

\* The step after a dispatch that went through
afterDispatch(type, parsed) ==
    IF type = "keyDown" THEN (IF sendsChar(parsed) THEN "char" ELSE "keyUp")
    ELSE IF type = "char" THEN "keyUp"
    ELSE "stability"

KeyOthers ==
    UNCHANGED <<regVars, stabVars, trkVars, pageVars, lastResolve, actVars, wfVars,
                snapVars, chanVars, scrollVars, diffVars, tailVars, raceVars,
                navVars>>

\* pressKey(keyStr): getClient(), then the pre-snapshot; ACTION_FAILED when
\* it throws
KeyCall ==
    /\ keyPc = "idle"
    /\ \E parts \in SUBSET ModifierParts, mainKey \in MainKeys, ch \in Channel,
          thrown \in BOOLEAN :
         /\ ch # "ok" => ~thrown
         /\ keyRun' = [keyStr |-> "given", parts |-> parts, mainKey |-> mainKey,
                       parsed |-> parseKeyCombo(parts, mainKey),
                       sent |-> IF ch # "ok" THEN <<>> ELSE <<[method |-> "takeSnapshot"]>>,
                       result |-> IF ch # "ok" THEN cdpError(ch)[1]
                                  ELSE IF thrown THEN "ACTION_FAILED" ELSE "none"]
         /\ keyPc' = IF ch # "ok" \/ thrown THEN "done" ELSE "keyDown"

\* await cdp.send("Input.dispatchKeyEvent", {type, ..., modifiers}); the
\* catch returns ACTION_FAILED
KeyDispatch ==
    /\ keyPc \in {"keyDown", "char", "keyUp"}
    /\ \E rejected \in BOOLEAN :
         /\ keyRun' = [keyRun EXCEPT
                         !.sent = Append(@, [method |-> "Input.dispatchKeyEvent",
                                             type |-> keyPc, key |-> keyRun.parsed.key,
                                             modifiers |-> keyRun.parsed.modifiers,
                                             rejected |-> rejected]),
                         !.result = IF rejected THEN "ACTION_FAILED" ELSE @]
         /\ keyPc' = IF rejected THEN "done" ELSE afterDispatch(keyPc, keyRun.parsed)

\* The stability wait, the post-snapshot and the result; ACTION_FAILED when
\* the snapshot throws
KeyFinish ==
    /\ keyPc = "stability"
    /\ \E thrown \in BOOLEAN :
         keyRun' = [keyRun EXCEPT !.sent = Append(@, [method |-> "takeSnapshot"]),
                                  !.result = IF thrown THEN "ACTION_FAILED" ELSE "ok"]
    /\ keyPc' = "done"

\* The caller has the result
KeyReturn ==
    /\ keyPc = "done"
    /\ keyPc' = "idle"
    /\ keyRun' = NoKeyRun

KeyNext ==
    /\ \/ KeyCall
       \/ KeyDispatch
       \/ KeyFinish
       \/ KeyReturn
    /\ KeyOthers

\* ---------------------------------------------------------------------------
\* actions/engine.ts, executeWithConsequences and pressKey: actionStartTime is
\* read, the input primitives are awaited, and only then waitForStability is
\* called and subscribes its handlers. stabPc = "idle" is the time the
\* primitives are awaited.

MaxEarly == 1

RaceOthers ==
    UNCHANGED <<regVars, trkVars, pageVars, lastResolve, actVars, wfVars, snapVars,
                chanVars, scrollVars, diffVars, tailVars, keyVars, navVars>>

\* The page announces a Fetch/XHR request while the replies to the primitives
\* are awaited: the client emits Network.requestWillBeSent to no handler
RaceAnnounce ==
    /\ stabPc = "idle"
    /\ "Network.requestWillBeSent" \notin subscribed
    /\ Cardinality(earlyRequests) < MaxEarly
    /\ \E id \in ReqIds : earlyRequests' = earlyRequests \cup {id}
    /\ UNCHANGED stabVars

\* Such a request finishes; a subscribed onRequestDone does not find it in
\* pendingRequests and returns
RaceDone ==
    /\ \E id \in earlyRequests \ pendingRequests :
         /\ earlyRequests' = earlyRequests \ {id}
         /\ IF \E h \in {"Network.loadingFinished", "Network.loadingFailed"} :
                  h \in subscribed
            THEN /\ lastStep' = DoneEvent(id, pendingRequests)
                 /\ UNCHANGED <<now, stabPc, pendingNetwork, pendingRequests,
                                networkEvents, debounceTimer, hardCapTimer, subscribed,
                                stabResult, lastEventAt, idleSeen>>
            ELSE UNCHANGED stabVars

\* waitForStability as in StabSpec; a request it counts and sees finish is no
\* longer in flight
RaceWait ==
    /\ \/ StabStart
       \/ Tick
       \/ onChildNodeInserted
       \/ onChildNodeRemoved
       \/ onRequestSent
       \/ onRequestDone
       \/ checkSettle
       \/ hardCapFires
    /\ earlyRequests' = earlyRequests \ (pendingRequests \ pendingRequests')

\* The action returns; the next one reads its own actionStartTime
RaceReturn ==
    /\ StabReturn
    /\ earlyRequests' = {}

RaceNext ==
    /\ \/ RaceAnnounce
       \/ RaceDone
       \/ RaceWait
       \/ RaceReturn
    /\ RaceOthers

\* ---------------------------------------------------------------------------
\* actions/engine.ts, navigate, with the load events of the page: those of its
\* own Page.navigate request and those of page loads that began earlier (a
\* link an earlier action clicked, a navigate that timed out)

MaxLoads == 2

NavOthers ==
    UNCHANGED <<stabVars, trkVars, lastResolve, actVars, wfVars, snapVars, chanVars,
                scrollVars, diffVars, tailVars, keyVars, raceVars>>

\* The page begins to load between two tool calls
NavPageLoads ==
    /\ navPc = "idle"
    /\ navRun.earlier < MaxLoads
    /\ navRun' = [navRun EXCEPT !.earlier = @ + 1]
    /\ UNCHANGED <<navPc, regVars, pageVars>>

\* navigate(url): cdp.on("Page.loadEventFired", handler) inside loadPromise,
\* then cdp.send("Page.navigate", { url })
NavCall ==
    /\ navPc = "idle"
    /\ navRun' = [navRun EXCEPT !.subscribed = TRUE]
    /\ navPc' = "sent"
    /\ UNCHANGED <<regVars, pageVars>>

\* const handler = () => { cdp.off("Page.loadEventFired", handler); resolve() }
\* for every handler subscribed; cause: whose load the event belongs to
handler(run, cause) ==
    [run EXCEPT !.handlers = 0,
                !.subscribed = FALSE,
                !.resolved = IF run.subscribed THEN cause ELSE @]

\* Page.loadEventFired of an earlier page load is delivered
NavEarlierLoad ==
    /\ navRun.earlier > 0
    /\ navRun' = [handler(navRun, "earlier") EXCEPT !.earlier = @ - 1]
    /\ UNCHANGED <<navPc, regVars, pageVars>>

\* The reply to Page.navigate: a rejection goes to the catch block; otherwise
\* the new document has replaced the old one, whose load events no longer
\* come, and its own load event is to come
NavReply ==
    /\ navPc = "sent"
    /\ \E rejected \in BOOLEAN :
         IF rejected
         THEN /\ navRun' = [navRun EXCEPT !.result = "ACTION_FAILED"]
              /\ navPc' = "done"
              /\ UNCHANGED page
         ELSE /\ navRun' = [navRun EXCEPT !.earlier = 0, !.own = "pending"]
              /\ navPc' = "race"
              /\ page' = [p \in Paths |-> NoNode]
    /\ UNCHANGED <<regVars, nextId>>

\* Page.loadEventFired of the document Page.navigate loaded is delivered
NavOwnLoad ==
    /\ navRun.own = "pending"
    /\ navRun' = [handler(navRun, "own") EXCEPT !.own = "fired"]
    /\ UNCHANGED <<navPc, regVars, pageVars>>

\* await Promise.race([loadPromise, the 30000 ms timer]): loadPromise has
\* resolved, then markAllStale() and takeSnapshot up to its first await; or
\* the timer rejects and the catch block returns
NavRace ==
    /\ navPc = "race"
    /\ IF navRun.resolved # "none"
       THEN /\ refs' = afterRace(TRUE, counter, refs)
            /\ navPc' = "snapshot"
            /\ UNCHANGED navRun
       ELSE /\ refs' = afterRace(FALSE, counter, refs)
            /\ navRun' = [navRun EXCEPT !.result = "ACTION_FAILED"]
            /\ navPc' = "done"
    /\ UNCHANGED <<counter, issued, regOp, pageVars>>

\* The rest of takeSnapshot: the page it reads has fired its load event or
\* is still loading; snapshotDataToResult, or the catch block when it throws
NavSnapshot ==
    /\ navPc = "snapshot"
    /\ counter + SnapshotSize(page) <= MaxCounter
    /\ \E snap \in {takeSnapshot(counter, refs, page, FALSE, io) : io \in SnapshotIO} :
         /\ counter' = snap.counter
         /\ refs' = snap.refs
         /\ issued' = issued \cup {RefOf(n) : n \in (counter + 1)..snap.counter}
         /\ navRun' = [navRun EXCEPT
                         !.snapshot = IF navRun.own = "fired" THEN "loaded" ELSE "loading",
                         !.result = IF snap.code = "THROW" THEN "ACTION_FAILED" ELSE "ok"]
    /\ navPc' = "done"
    /\ UNCHANGED <<regOp, pageVars>>

\* The document changes while it loads and afterwards
NavPage ==
    /\ navPc \in {"idle", "race", "snapshot"}
    /\ PageChange
    /\ UNCHANGED <<navVars, regVars>>

\* The caller has the result. A handler that has not run stays subscribed; a
\* load event that has not come is, for the next call, one of an earlier
\* page load
NavReturn ==
    /\ navPc = "done"
    /\ navPc' = "idle"
    /\ navRun' = [NoNav EXCEPT
                    !.handlers = IF navRun.subscribed /\ navRun.handlers < MaxLoads
                                 THEN navRun.handlers + 1 ELSE navRun.handlers,
                    !.earlier = IF navRun.own = "pending" /\ navRun.earlier < MaxLoads
                                THEN navRun.earlier + 1 ELSE navRun.earlier]
    /\ UNCHANGED <<regVars, pageVars>>

NavNext ==
    /\ \/ NavPageLoads
       \/ NavCall
       \/ NavEarlierLoad
       \/ NavReply
       \/ NavOwnLoad
       \/ NavRace
       \/ NavSnapshot
       \/ NavReturn
       \/ NavPage
    /\ NavOthers

Init ==
    RegInit /\ StabInit /\ TrkInit /\ PageInit /\ ActInit /\ WfInit /\ SnapInit /\ ChanInit
    /\ FnInit

Spec == Init /\ [][Next]_vars

RegSpec == Init /\ [][RegNext]_vars

StabSpec == Init /\ [][StabNext]_vars

\* A registry and a page resolveRef can meet, nothing else running
ResolveStart ==
    ResolveInit /\ StabInit /\ TrkInit /\ ActInit /\ WfInit /\ SnapInit /\ ChanInit
    /\ FnInit

ResolveSpec == ResolveStart /\ [][ResolveNext]_vars

TrkSpec == Init /\ [][TrkNext]_vars

\* A session in which browser_snapshot has returned the one element of the
\* page as @e1
WaitStart ==
    /\ counter = 1
    /\ refs = assignRef(0, EmptyRefs, [axNodeId |-> 1, backendNodeId |-> 1,
                                       domPath |-> "p1"]).refs
    /\ issued = {RefOf(1)}
    /\ regOp = [op |-> "none", ref |-> RefOf(0), before |-> 0, reused |-> FALSE]
    /\ page = [p \in Paths |-> [bid |-> 1, ax |-> 1]]
    /\ nextId = 2
    /\ lastResolve = NoResolve
    /\ StabInit /\ TrkInit /\ WfInit /\ SnapInit /\ ChanInit /\ FnInit
    /\ calls = 1
    /\ pc = "idle"
    /\ act = NoAct
    /\ resolvedBy = "none"
    /\ preSnapshot = <<>>
    /\ postSnapshot = <<>>
    /\ result = Pending
    /\ log = <<>>
    /\ cdpSent = {}
    /\ loadHandlers = {}
    /\ primFact = NoPrim

SnapSpec == ResolveStart /\ [][SnapNext]_vars

WaitSpec == WaitStart /\ [][WaitNext]_vars

ChanSpec == WaitStart /\ [][ChanNext]_vars

ScrollSpec == Init /\ [][ScrollNext]_vars

DiffSpec == Init /\ [][DiffNext]_vars

ChangeSpec == Init /\ [][ChangeNext]_vars

TailSpec == Init /\ [][TailNext]_vars

KeySpec == Init /\ [][KeyNext]_vars

RaceSpec == Init /\ [][RaceNext]_vars

NavSpec == Init /\ [][NavNext]_vars

\* The event loop runs a due timer callback and lets time pass; the page's
\* events are under no obligation.
StabFairSpec ==
    StabSpec /\ WF_stabVars(Tick) /\ WF_stabVars(checkSettle) /\ WF_stabVars(hardCapFires)

-----------------------------------------------------------------------------
(* Claims about the registry                                               *)

\* C1: over any sequence of assign / clear / free / markAllStale the counter
\* never decreases, assign returns a ref no earlier assign returned, clear and
\* free leave the counter alone, and every live entry's ref was issued once.
C1_RefUniqueness ==
    /\ counter >= regOp.before
    /\ regOp.op = "assign" => (~regOp.reused /\ regOp.ref \in DOMAIN refs)
    /\ regOp.op \in {"clear", "free", "markAllStale"} => counter = regOp.before
    /\ regOp.op = "clear" => refs = EmptyRefs
    /\ regOp.op = "free" => regOp.ref \notin DOMAIN refs
    /\ DOMAIN refs \subseteq issued
    /\ Cardinality(issued) = counter

\* An assign after a clear and a free: three refs issued, the registry holds
\* only the last.
C1_Witness ==
    /\ regOp.op = "assign"
    /\ counter = 3
    /\ DOMAIN refs = {RefOf(3)}

-----------------------------------------------------------------------------
(* Claims about the stability wait                                         *)

\* C4: a wait resolves with timedOut=false only from a debounce expiry with no
\* tracked request in flight, at least DEBOUNCE_MS after the latest tracked
\* event (or the start); every tracked event re-arms the debounce for a full
\* window, and an expiry with a request in flight re-arms instead of resolving.
C4_SettlesOnlyWhenQuiet ==
    /\ (stabPc = "resolved" /\ ~stabResult.timedOut) =>
          /\ stabResult.by = "debounce"
          /\ pendingRequests = {}
          /\ stabResult.at - lastEventAt >= DEBOUNCE_MS
    /\ lastStep \in {"start", "dom", "sent", "done"} =>
          (stabPc = "waiting" /\ debounceTimer = now + DEBOUNCE_MS)
    /\ (lastStep \in {"settled", "rearmed"} /\ pendingRequests # {}) =>
          (lastStep = "rearmed" /\ stabPc = "waiting" /\ debounceTimer = now + DEBOUNCE_MS)

\* Settled after a request completed, later than the first debounce window.
C4_Witness ==
    /\ stabPc = "resolved"
    /\ ~stabResult.timedOut
    /\ Len(stabResult.networkEvents) > 0
    /\ stabResult.at >= 2 * DEBOUNCE_MS

\* C5, the bound: a wait is never pending later than HARD_CAP_MS after it
\* started; timedOut=true is reported exactly at the hard cap; and a wait during
\* which the page was never idle for a debounce window (events less than
\* DEBOUNCE_MS apart, or a tracked request in flight) resolves there, timed out.
C5_Bound ==
    /\ stabPc = "waiting" => now <= HARD_CAP_MS
    /\ stabPc = "resolved" =>
          /\ stabResult.at <= HARD_CAP_MS
          /\ stabResult.timedOut => stabResult.at = HARD_CAP_MS
          /\ ~idleSeen => stabResult.timedOut

\* C5: every stability wait terminates, within the bound above.
C5_WaitTerminates ==
    /\ []C5_Bound
    /\ (stabPc = "waiting") ~> (stabPc = "resolved")

\* A wait that hit the hard cap with a request still in flight.
C5_Witness ==
    /\ stabPc = "resolved"
    /\ stabResult.timedOut
    /\ pendingRequests # {}
    /\ ~idleSeen

-----------------------------------------------------------------------------
(* resolveRef claims, over ResolveSpec. The page does not change there, so  *)
(* `page` is the page the latest call ran against.                          *)

Resolved == lastResolve.code # "none"

\* DOM.resolveNode on the stored backendNodeId succeeded
Tier1Succeeded ==
    /\ lastResolve.io.resolveNode
    /\ NodeExists(page, lastResolve.before.backendNodeId)

\* DOM.getDocument and DOM.querySelector went through and the selector matched
SelectorFound ==
    /\ lastResolve.io.lookup \notin {"DOM.getDocument", "DOM.querySelector"}
    /\ querySelector(page, lastResolve.before.domPath).bid # 0

\* ... and DOM.describeNode on the match went through as well
SelectorDescribed == SelectorFound /\ lastResolve.io.lookup # "DOM.describeNode"

Tier1Outcome ==
    /\ lastResolve.code = "ok"
    /\ lastResolve.resolvedBy = "backendNodeId"
    /\ lastResolve.backendNodeId = lastResolve.before.backendNodeId
    /\ lastResolve.sent = <<"DOM.resolveNode">>

Tier2Outcome ==
    /\ lastResolve.code = "ok"
    /\ lastResolve.resolvedBy = "domPath"
    /\ lastResolve.backendNodeId = querySelector(page, lastResolve.before.domPath).bid

StaleOutcome ==
    /\ lastResolve.code = "REF_STALE"
    /\ lastResolve.resolvedBy = "none"

\* C3 as stated: for a ref in the registry, tier 1 success gives
\* resolvedBy="backendNodeId" with no domPath lookup; otherwise a domPath
\* selector that finds a node gives resolvedBy="domPath"; otherwise REF_STALE.
C3_AsStated ==
    (Resolved /\ lastResolve.known) =>
        /\ Tier1Succeeded => Tier1Outcome
        /\ (~Tier1Succeeded /\ SelectorFound) => Tier2Outcome
        /\ (~Tier1Succeeded /\ ~SelectorFound) => StaleOutcome

\* C3: for a ref in the registry, resolveRef returns exactly one of three
\* outcomes, fixed by which requests succeed: tier 1 success gives the stored
\* backendNodeId with resolvedBy="backendNodeId" and only DOM.resolveNode is
\* sent; otherwise, when the domPath selector finds a node and
\* DOM.describeNode on it succeeds, resolvedBy="domPath" with the found
\* node's id; in every other case REF_STALE.
C3_ResolverLadder ==
    (Resolved /\ lastResolve.known) =>
        /\ Tier1Succeeded => Tier1Outcome
        /\ (~Tier1Succeeded /\ SelectorDescribed) => Tier2Outcome
        /\ (~Tier1Succeeded /\ ~SelectorDescribed) => StaleOutcome
        /\ (\E k \in DOMAIN lastResolve.sent : lastResolve.sent[k] = "DOM.querySelector")
              => ~Tier1Succeeded

\* The stored node is gone, the selector finds another one, describeNode works
C3_Witness ==
    /\ Resolved /\ lastResolve.known
    /\ ~NodeExists(page, lastResolve.before.backendNodeId)
    /\ lastResolve.io.resolveNode
    /\ SelectorDescribed
    /\ lastResolve.resolvedBy = "domPath"

\* C10: a domPath-tier success rewrites the ref's identity in place
\* (backendNodeId := the found node's id, stale := false, axNodeId := the AX
\* lookup's node if it returned one and kept otherwise, domPath kept), touches
\* no other entry, and a following resolveRef of the ref on the same page whose
\* DOM.resolveNode request goes through resolves by backendNodeId; a
\* backendNodeId-tier success leaves the whole registry as it was.
C10_IdentityRefresh ==
    LET L == lastResolve
        node == querySelector(page, L.before.domPath)
    IN  /\ (Resolved /\ L.resolvedBy = "domPath") =>
              /\ L.ref \in DOMAIN refs
              /\ refs[L.ref].backendNodeId = node.bid
              /\ refs[L.ref].stale = FALSE
              /\ refs[L.ref].axNodeId =
                    (IF L.io.ax = "node" THEN node.ax ELSE L.before.axNodeId)
              /\ refs[L.ref].domPath = L.before.domPath
              /\ L.othersKept
              /\ \A io \in ResolveIO :
                    io.resolveNode =>
                       resolveRef(refs, page, L.ref, io) =
                          [refs |-> refs, code |-> "ok", backendNodeId |-> node.bid,
                           resolvedBy |-> "backendNodeId", sent |-> <<"DOM.resolveNode">>]
        /\ (Resolved /\ L.resolvedBy = "backendNodeId") =>
              /\ refs[L.ref] = L.before
              /\ L.othersKept

\* A stale identity with a dead node id and an outdated AX id was refreshed
C10_Witness ==
    /\ Resolved /\ lastResolve.resolvedBy = "domPath"
    /\ lastResolve.before.stale
    /\ lastResolve.before.backendNodeId # refs[lastResolve.ref].backendNodeId
    /\ lastResolve.before.axNodeId # refs[lastResolve.ref].axNodeId
    /\ RefOf(2) \in DOMAIN refs


\* ------------------------------------------------------------------------
\* Claims about the action pipeline (Spec)

Pipelined == {"click", "fill", "pressKey", "scroll"}

RefActs == {"click", "fill", "scroll"}

\* An element of the pre-snapshot and one of the post-snapshot that carry the
\* same (non-empty) axNodeId
SameAxNode(i, j) ==
    /\ preSnapshot[i].axNodeId # 0
    /\ preSnapshot[i].axNodeId = postSnapshot[j].axNodeId

RefNumber(ref) == ref[2]

\* C2 as stated: an element present in the pre-snapshot and in the
\* post-snapshot with the same axNodeId carries the same ref in both.
C2_AsStated ==
    (pc = "diff" /\ act.kind \in Pipelined) =>
        \A i \in DOMAIN preSnapshot, j \in DOMAIN postSnapshot :
            SameAxNode(i, j) => preSnapshot[i].ref = postSnapshot[j].ref

\* C2 (amended): once an action has taken both snapshots, an element present
\* in both with the same axNodeId carries in the post-snapshot a newly
\* assigned ref, numbered higher than (so different from) its pre-snapshot
\* ref; the registry then holds the post-snapshot ref and no longer holds the
\* pre-snapshot ref.
C2_PostSnapshotReassignsRefs ==
    (pc = "diff" /\ act.kind \in Pipelined) =>
        \A i \in DOMAIN preSnapshot, j \in DOMAIN postSnapshot :
            SameAxNode(i, j) =>
                /\ RefNumber(postSnapshot[j].ref) > RefNumber(preSnapshot[i].ref)
                /\ preSnapshot[i].ref \notin DOMAIN refs
                /\ postSnapshot[j].ref \in DOMAIN refs
                /\ refs[postSnapshot[j].ref].axNodeId = postSnapshot[j].axNodeId

C2_Witness ==
    /\ pc = "diff"
    /\ act.kind = "click"
    /\ \E i \in DOMAIN preSnapshot, j \in DOMAIN postSnapshot : SameAxNode(i, j)

NamedSteps == {"interactable", "pre:keep", "prim", "stab", "post:clear", "diff"}

IsNamedStep(label) == label \in NamedSteps

\* The step a position of the async function is running
StepLabel(p) ==
    CASE p = "pre" -> "pre:keep"
      [] p = "post" -> "post:clear"
      [] OTHER -> p

ClaimedOrder(kind) ==
    (IF kind \in {"click", "fill"} THEN <<"interactable">> ELSE <<>>)
        \o <<"pre:keep", "prim", "stab", "post:clear", "diff">>

C6_Order ==
    (act.kind \in Pipelined /\ getClient(act.ch)) =>
        LET completed == SelectSeq(log, IsNamedStep)
            order == ClaimedOrder(act.kind)
        IN  /\ Len(completed) <= Len(order)
            /\ \A i \in 1..Len(completed) : completed[i] = order[i]
            /\ StepLabel(pc) \in NamedSteps =>
                   /\ Len(completed) < Len(order)
                   /\ StepLabel(pc) = order[Len(completed) + 1]
            /\ (pc = "done" /\ result.ok) => completed = order

C6_PreKeeps ==
    (pc = "pre" /\ pc' # "pre") =>
        \A r \in DOMAIN refs : r \in DOMAIN refs' /\ refs'[r] = refs[r]

C6_PostRefreshes ==
    (pc = "post" /\ pc' = "diff") =>
        /\ DOMAIN refs' = {postSnapshot'[i].ref : i \in DOMAIN postSnapshot'}
        /\ DOMAIN refs' \cap DOMAIN refs = {}

\* C6: click, fill, press-key and scroll run, strictly in this order and one
\* at a time, the interactable check (click and fill, the ref-based actions
\* of executeWithConsequences), the pre-snapshot, the input primitives, the
\* stability wait, the post-snapshot and the diff; the pre-snapshot keeps
\* every registry entry and the post-snapshot leaves only its own refs.
C6_PipelineOrder == [] C6_Order /\ [][C6_PreKeeps /\ C6_PostRefreshes]_vars

C6_Witness ==
    /\ pc = "done"
    /\ act.kind = "fill"
    /\ result.ok
    /\ log = <<"interactable", "pre:keep", "prim", "stab", "post:clear", "diff">>

\* C7 as stated: every failure of an action comes back as a returned result
\* with ok false and a non-empty errors array; no exception escapes.
C7_NoFailureEscapes ==
    (pc = "done" /\ act.kind \in Pipelined \cup {"navigate"}) =>
        /\ result.settled = "resolved"
        /\ ~result.ok => Len(result.errors) > 0

UnknownRefCall == act.kind \in RefActs /\ act.ref # NoRef /\ ~act.known

NothingDone ==
    /\ ~result.ok
    /\ result.consequences = <<>>
    /\ cdpSent = {}
    /\ log = <<>>

\* C8 as stated: click, fill or scroll with a ref the registry does not hold
\* returns NO_SUCH_REF, with no CDP request sent.
C8_AsStated ==
    (pc = "done" /\ UnknownRefCall) =>
        /\ result.errors = <<"NO_SUCH_REF">>
        /\ NothingDone

C8_Returned ==
    (pc = "done" /\ UnknownRefCall) =>
        /\ result.errors = (IF getClient(act.ch) THEN <<"NO_SUCH_REF">>
                            ELSE cdpError(act.ch))
        /\ NothingDone

C8_Untouched ==
    (UnknownRefCall' /\ pc # "done") =>
        /\ UNCHANGED <<counter, refs>>
        /\ pc # "idle" => pc' = "done"

\* C8 (amended): click, fill or scroll with a ref the registry does not hold,
\* called while the CDP client is available, returns ok false with
\* NO_SUCH_REF (without the client it returns CDP_DISCONNECTED or
\* PAGE_CRASHED); either way no CDP request is sent, no step completes and
\* the registry is unchanged.
C8_UnknownRef == [] C8_Returned /\ [][C8_Untouched]_vars

C8_Witness ==
    /\ pc = "done"
    /\ UnknownRefCall
    /\ getClient(act.ch)
    /\ refs # EmptyRefs
    /\ result.errors = <<"NO_SUCH_REF">>

NeitherTierResolved ==
    /\ lastResolve.code = "known"
    /\ ~lastResolve.tier1
    /\ ~lastResolve.tier2

\* C9: when a ref-based action's ref is in the registry and neither tier of
\* the resolver resolves it, the action returns ok false with REF_STALE, no
\* input is dispatched, no snapshot is taken and the ref's stored identity is
\* what it was.
C9_StaleRefStops ==
    (act.kind \in RefActs /\ NeitherTierResolved) =>
        /\ pc = "done"
        /\ result = errorAction(<<"REF_STALE">>)
        /\ "input" \notin cdpSent
        /\ "snapshot" \notin cdpSent
        /\ log = <<>>
        /\ lastResolve.ref \in DOMAIN refs
        /\ refs[lastResolve.ref] = lastResolve.before

C9_Witness ==
    /\ pc = "done"
    /\ act.kind = "click"
    /\ NeitherTierResolved
    /\ "resolver" \in cdpSent
    /\ result.errors = <<"REF_STALE">>


\* ------------------------------------------------------------------------
\* Claims about one stability wait (StabSpec), continued

\* C11: a stability wait resolves exactly once; from the moment it resolves,
\* by the debounce path or by the hard cap, none of its five handlers is
\* subscribed and neither of its timers is armed, so the step that resolved
\* it is the last handler or timer callback of that wait.
C11_ResolvesOnce ==
    /\ stabResult.resolved <= 1
    /\ stabPc = "waiting" => (subscribed = Handlers /\ stabResult.resolved = 0)
    /\ stabPc # "waiting" =>
           /\ subscribed = {}
           /\ debounceTimer = NoTimer
           /\ hardCapTimer = NoTimer
    /\ stabPc = "resolved" =>
           /\ stabResult.resolved = 1
           /\ lastStep \in {"settled", "capped"}
           /\ stabResult.timedOut <=> lastStep = "capped"

C11_Witness ==
    /\ stabPc = "resolved"
    /\ lastStep = "capped"
    /\ pendingRequests # {}
    /\ Len(networkEvents) > 0


\* ------------------------------------------------------------------------
\* Claims about the mutation tracker (TrkSpec)

\* The events of one type under one parent among the events seen
EventCount(events, type, parentId) ==
    Cardinality({i \in DOMAIN events :
                   events[i].type = type /\ events[i].parentNodeId = parentId})

TypeCount(events, type) == Cardinality({i \in DOMAIN events : events[i].type = type})

RECURSIVE ChurnOf(_, _)
ChurnOf(events, parents) ==
    IF parents = {} THEN 0
    ELSE LET p == CHOOSE q \in parents : TRUE
         IN  Min(EventCount(events, "DOM.childNodeInserted", p),
                 EventCount(events, "DOM.childNodeRemoved", p))
             + ChurnOf(events, parents \ {p})

Reordered(events, f) == [i \in DOMAIN events |-> events[f[i]]]

\* C12: the record stop() returns has insertions = the insert events seen,
\* removals = the remove events seen and churnCount = the sum over the
\* parents of min(inserts, removes under that parent); every reordering of
\* the same events gives the same record, and churnCount is at most
\* min(insertions, removals).
C12_TrackerRecord ==
    /\ trkPc # "idle" =>
           /\ parentInsertions = Tracked(trkEvents).ins
           /\ parentRemovals = Tracked(trkEvents).rem
    /\ trkPc = "stopped" =>
           /\ trkRecord.insertions = TypeCount(trkEvents, "DOM.childNodeInserted")
           /\ trkRecord.removals = TypeCount(trkEvents, "DOM.childNodeRemoved")
           /\ trkRecord.churnCount = ChurnOf(trkEvents, ParentIds)
           /\ trkRecord.churnCount <= Min(trkRecord.insertions, trkRecord.removals)
           /\ \A f \in Permutations(DOMAIN trkEvents) :
                  LET maps == Tracked(Reordered(trkEvents, f))
                  IN  /\ stop(maps.ins, maps.rem) = trkRecord
                      /\ buildMutationRecord(maps.ins, maps.rem) = trkRecord

C12_Witness ==
    /\ trkPc = "stopped"
    /\ trkRecord.churnCount = 1
    /\ trkRecord.insertions = 2
    /\ trkRecord.removals = 2

-----------------------------------------------------------------------------------------------------------------------------------------------------
(* Claims about waitFor                                                    *)

WaitForRuns == act.kind = "waitFor" /\ getClient(act.ch)

\* C13: the ref condition of a poll holds exactly when the ref resolves and
\* DOM.getBoxModel succeeds; hence a wait-for on a ref that is in the registry
\* when the call starts, and whose node keeps existing with a box model,
\* returns ok:true and not WAIT_TIMEOUT.
C13_RegisteredRefIsFound ==
    WaitForRuns /\ act.ref # NoRef /\ wfPolls > 0 =>
        /\ ~wfLast.thrown => (wfLast.ref <=> (wfLast.resolved /\ wfLast.box))
        /\ (pc = "done" /\ act.known /\ wfKept) => result.ok

Satisfied(poll) == poll.text /\ poll.ref

\* C14: wait-for terminates: it polls at most once per poll interval of its
\* timeout and sleeps one interval after every failed poll; it returns
\* ok:true with the snapshot of the first poll in which every provided
\* condition holds; a poll that fails or whose snapshot throws is followed by
\* the sleep and, while the timeout has not elapsed, by another poll; when the
\* timeout elapses without a successful poll it returns ok:false with the one
\* error WAIT_TIMEOUT and no elements.
C14_WaitForTerminates ==
    WaitForRuns =>
        /\ wfElapsed <= act.timeout
        /\ wfPolls <= act.timeout
        /\ pc = "poll" => /\ wfPolls = wfElapsed
                          /\ wfElapsed < act.timeout
                          /\ result = Pending
                          /\ wfPolls > 0 => ~Satisfied(wfLast)
        /\ pc = "sleep" => /\ wfPolls = wfElapsed + 1
                           /\ result = Pending
                           /\ ~Satisfied(wfLast)
        /\ pc = "done" =>
             /\ wfPolls > 0
             /\ IF Satisfied(wfLast)
                THEN /\ result = snapshotDataToResult(wfLast.returned)
                     /\ ~wfLast.thrown
                     /\ wfPolls = wfElapsed + 1
                ELSE /\ result = WaitTimeout
                     /\ result.errors = <<"WAIT_TIMEOUT">>
                     /\ result.elements = <<>>
                     /\ wfElapsed = act.timeout
                     /\ wfPolls = act.timeout

\* A call with a text and a ref that fails its first poll and returns the
\* snapshot of its second
C14_Witness ==
    /\ WaitForRuns
    /\ pc = "done"
    /\ wfPolls = 2
    /\ result.ok
    /\ Len(result.elements) = 1
    /\ act.ref # NoRef
    /\ act.text

-----------------------------------------------------------------------------
(* Claims about navigate                                                   *)

Navigating == act.kind = "navigate" /\ getClient(act.ch)

\* Resolving the ref fails whatever the CDP requests do
Invalid(m, pg, ref) == \A io \in ResolveIO : resolveRef(m, pg, ref, io).code # "ok"

\* The step in which navigate returns ok:true
C15_Returns == Navigating /\ pc = "navSnapshot" /\ pc' = "done" /\ result'.ok

\* C15: after a navigate that returns ok:true every ref issued before the
\* navigation is invalid (resolving it gives an error, not a node of the new
\* page), the counter was not lowered, and every ref of the returned elements
\* is live in the registry and was not issued before.
C15_NavigateInvalidatesRefs ==
    [][/\ (Navigating /\ pc \in {"navigate", "load"}) =>
             (issued' = issued /\ counter' = counter)
       /\ C15_Returns =>
            /\ \A r \in issued : Invalid(refs', page', r)
            /\ counter' >= counter
            /\ \A i \in DOMAIN result'.elements :
                 /\ result'.elements[i].ref \in DOMAIN refs'
                 /\ result'.elements[i].ref \notin issued]_vars

\* A navigate returns the one element of the new page as @e2; @e1, issued by
\* the call before, is gone
C15_Witness ==
    /\ Navigating
    /\ pc = "done"
    /\ result.ok
    /\ Len(result.elements) = 1
    /\ issued = {RefOf(1), RefOf(2)}
    /\ DOMAIN refs = {RefOf(2)}

NavigateFailed == errorAction(<<"ACTION_FAILED">>)

\* C19: a navigate whose Page.navigate fails, or whose load event does not
\* come within 30000 ms, returns ACTION_FAILED; markAllStale was not called,
\* no snapshot was taken, and the registry (entries, stale flags, counter) is
\* as it was before the call.
C19_FailedNavigateKeepsRegistry ==
    [][(Navigating /\ pc \in {"navigate", "load"}) =>
          /\ pc' # "navSnapshot" => UNCHANGED <<counter, refs, issued>>
          /\ pc' = "done" =>
               /\ result'.ok = FALSE
               /\ result'.errors = <<"ACTION_FAILED">>
               /\ result'.elements = <<>>
               /\ "snapshot" \notin cdpSent']_vars

\* A failed navigate with a live, non-stale ref in the registry
C19_Witness ==
    /\ Navigating
    /\ pc = "done"
    /\ result = NavigateFailed
    /\ "snapshot" \notin cdpSent
    /\ \E r \in DOMAIN refs : ~refs[r].stale

\* C20: when navigate returns, on every exit path, the Page.loadEventFired
\* handler it subscribed is no longer subscribed; failed navigations leave no
\* handlers behind.
C20_LoadHandlerUnsubscribed ==
    /\ (act.kind = "navigate" /\ pc = "done") => calls \notin loadHandlers
    /\ pc = "idle" => loadHandlers = {}

-----------------------------------------------------------------------------
(* Claims about takeSnapshot                                               *)

ElementRefs(elements) == {elements[i].ref : i \in DOMAIN elements}

\* C16: takeSnapshot without keepExistingRefs empties the registry before it
\* assigns: no earlier entry survives, and when it returns the live refs are
\* exactly the refs of the returned elements. With keepExistingRefs every
\* entry of the registry before the call is still there with the same
\* identity, and the elements have further, fresh refs. The counter is not
\* reset in either mode.
C16_SnapshotRegistryFrame ==
    snapCall # NoSnap =>
        /\ counter >= snapCall.counter
        /\ ~snapCall.keepExistingRefs =>
             /\ DOMAIN refs \cap DOMAIN snapCall.refs = {}
             /\ snapCall.code = "ok" => DOMAIN refs = ElementRefs(snapCall.elements)
        /\ snapCall.keepExistingRefs =>
             /\ \A r \in DOMAIN snapCall.refs :
                  r \in DOMAIN refs /\ refs[r] = snapCall.refs[r]
             /\ ElementRefs(snapCall.elements) \subseteq DOMAIN refs \ DOMAIN snapCall.refs
             /\ \A r \in ElementRefs(snapCall.elements) :
                  \E n \in (snapCall.counter + 1)..counter : r = RefOf(n)

\* A keepExistingRefs snapshot of a one-element page over a registry of two
\* entries, one of them stale: both are kept, the element is @e3
C16_Witness ==
    /\ snapCall # NoSnap
    /\ snapCall.code = "ok"
    /\ snapCall.keepExistingRefs
    /\ DOMAIN snapCall.refs = {RefOf(1), RefOf(2)}
    /\ snapCall.refs[RefOf(1)].stale
    /\ ElementRefs(snapCall.elements) = {RefOf(3)}
    /\ DOMAIN refs = {RefOf(1), RefOf(2), RefOf(3)}

-----------------------------------------------------------------------------
(* Claims about the channel                                                *)

\* C17: once Inspector.targetCrashed has been received the channel stays
\* crashed, whatever is called on it afterwards (close, disconnect, connect),
\* and every action started afterwards returns ok:false with PAGE_CRASHED
\* without sending a CDP command.
C17_CrashIsPermanent ==
    crashSeen =>
        /\ crashed
        /\ pc \in {"idle", "done"}
        /\ pc = "done" => /\ result.ok = FALSE
                          /\ result.errors = <<"PAGE_CRASHED">>
                          /\ cdpSent = {}

Actions == {"click", "fill", "pressKey", "scroll", "navigate", "waitFor"}

\* C18: an action (click, fill, press-key, scroll, navigate, wait-for) called
\* while no client is connected returns at once ok:false with exactly one
\* error, CDP_DISCONNECTED if the channel is not crashed and PAGE_CRASHED if
\* it is; it sends no request, takes no snapshot and leaves the registry as
\* it was.
C18_DisconnectedActionFails ==
    [][(pc = "idle" /\ pc' # "idle" /\ ~client /\ act'.kind \in Actions) =>
          /\ pc' = "done"
          /\ result'.settled = "resolved"
          /\ result'.ok = FALSE
          /\ result'.errors = <<IF crashed THEN "PAGE_CRASHED" ELSE "CDP_DISCONNECTED">>
          /\ result'.elements = <<>>
          /\ cdpSent' = {}
          /\ UNCHANGED <<counter, refs, issued>>]_vars

\* A wait-for on a registered ref over a channel that was closed, not crashed
C18_Witness ==
    /\ pc = "done"
    /\ ~client
    /\ ~crashed
    /\ act.kind = "waitFor"
    /\ act.known
    /\ result.errors = <<"CDP_DISCONNECTED">>
    /\ act.ref \in DOMAIN refs

-----------------------------------------------------------------------------
(* Claims about the snapshot builder's DOM fallback                        *)

\* C30: a takeSnapshot call that returns has used the DOM fallback exactly
\* when its accessibility walk produced no element and the body has at least
\* one child, also when every interactive node of the walk was skipped for
\* want of a backendDOMNodeId; it never uses it when the walk produced an
\* element.
C30_FallbackWhenNoElements ==
    (snapCall # NoSnap /\ snapCall.code = "ok") =>
        (snapCall.fallback <=> (snapCall.walked = 0 /\ PresentPaths(page) # <<>>))

-----------------------------------------------------------------------------
(* Claims about scroll's ref                                               *)

\* A scroll call that returned from its ref step: resolveRef was called
ScrollStoppedAtRef ==
    pc = "done" /\ act.kind = "scroll" /\ lastResolve # NoResolve

\* resolveRef failed: the registry does not hold the ref, or neither tier
\* finds its node
ResolutionFailed ==
    IF lastResolve.code = "unknown" THEN TRUE
    ELSE ~lastResolve.tier1 /\ ~lastResolve.tier2

\* C23 as stated: scroll with a ref whose resolution fails (the ref is not in
\* the registry, or it is stale) returns ok false with NOT_INTERACTABLE.
C23_AsStated ==
    (ScrollStoppedAtRef /\ ResolutionFailed) =>
        /\ result.ok = FALSE
        /\ result.errors = <<"NOT_INTERACTABLE">>

\* C23 (amended): scroll with a ref whose resolution fails returns ok false
\* with the resolver's own error, NO_SUCH_REF when the registry does not hold
\* the ref and REF_STALE when neither tier finds its node; it returns
\* NOT_INTERACTABLE when the ref resolves and DOM.resolveNode gives no object
\* handle. In each case the result has no consequences and no warnings.
C23_ScrollRefFailure ==
    ScrollStoppedAtRef =>
        /\ result.settled = "resolved"
        /\ result.ok = FALSE
        /\ result.consequences = <<>>
        /\ result.warnings = {}
        /\ result.errors =
             (IF lastResolve.code = "unknown" THEN <<"NO_SUCH_REF">>
              ELSE IF ResolutionFailed THEN <<"REF_STALE">>
              ELSE <<"NOT_INTERACTABLE">>)

\* A scroll on a registered ref whose node is gone and whose domPath matches
\* nothing
C23_Witness ==
    /\ ScrollStoppedAtRef
    /\ lastResolve.code = "known"
    /\ ResolutionFailed
    /\ result.errors = <<"REF_STALE">>

-----------------------------------------------------------------------------
(* Claims about fill                                                       *)

\* C24: a fill whose value the element does not hold afterwards (the page
\* function threw, or it ran and the value did not persist) returns ok false
\* with FILL_FAILED, on the native-setter path and on the contentEditable
\* path alike.
C24_FillFailed ==
    (pc = "done" /\ act.kind = "fill" /\ primFact.outcome \in {"lost", "threw"}) =>
        /\ result.ok = FALSE
        /\ result.errors = <<"FILL_FAILED">>

-----------------------------------------------------------------------------
(* Claims about the result envelope                                        *)

ActionKinds == {"click", "fill", "pressKey", "scroll"}

\* An action returned an ActionResult
ActionReturned ==
    pc = "done" /\ act.kind \in ActionKinds /\ result.settled = "resolved"

\* C21: every ActionResult has ok true exactly when errors is empty, and with
\* ok false it has no consequences, no newInteractiveElements and no
\* warnings; so the STABILITY_TIMEOUT, SCROLL_AT_BOUNDARY and SCROLL_FALLBACK
\* warnings come with ok true only, and an action that got as far as reading
\* its StabilityResult has ok true whether or not the wait hit the hard cap.
C21_ResultEnvelope ==
    ActionReturned =>
        /\ result.ok <=> result.errors = <<>>
        /\ ~result.ok => /\ result.consequences = <<>>
                         /\ result.newInteractiveElements = <<>>
                         /\ result.warnings = {}
        /\ (log # <<>> /\ log[Len(log)] = "diff") => result.ok

\* A scroll on a ref that timed out at the boundary of the viewport it fell
\* back to, with churn
C21_Witness ==
    /\ ActionReturned
    /\ act.kind = "scroll"
    /\ result.ok
    /\ result.warnings = {"STABILITY_TIMEOUT", AtBottom, "SCROLL_FALLBACK"}
    /\ \E i \in DOMAIN result.consequences : result.consequences[i].type = "dom-churn"

-----------------------------------------------------------------------------
(* C22: a scroll that returns ok:true carries a SCROLL_AT_BOUNDARY warning *)
(* if and only if scrollTopBefore equals scrollTopAfter; the text is       *)
(* "Already at top" when amount is to-top, or amount is neither to-top nor *)
(* to-bottom and direction is up, and "Already at bottom" otherwise        *)
IntentUp(call) ==
    \/ call.amount = "to-top"
    \/ call.amount \notin {"to-top", "to-bottom"} /\ call.direction = "up"

C22_BoundaryWarning ==
    scrollCall # NoScroll =>
        LET moved == scrollCall.scrollResult.scrollTopBefore
                     # scrollCall.scrollResult.scrollTopAfter
        IN  /\ (AtTop \in scrollCall.warnings) <=> (~moved /\ IntentUp(scrollCall))
            /\ (AtBottom \in scrollCall.warnings) <=> (~moved /\ ~IntentUp(scrollCall))

\* amount to-top with direction down on a container already at the top
C22_Witness ==
    /\ scrollCall # NoScroll
    /\ scrollCall.amount = "to-top"
    /\ scrollCall.direction = "down"
    /\ scrollCall.scrollResult.scrollTopBefore = 0
    /\ AtTop \in scrollCall.warnings

-----------------------------------------------------------------------------
(* C26: the differ's matching is a partial one-to-one pairing: no pre and  *)
(* no post element is in two pairs; each post element is paired or         *)
(* reported once as appeared, each pre element is paired or reported once  *)
(* as disappeared, never both; a domPath pairing is made only between      *)
(* elements the axNodeId phase left unpaired                               *)
Count(seq, Test(_)) == Cardinality({i \in DOMAIN seq : Test(seq[i])})

\* el is the element its snapshot's axNodeId map holds for its axNodeId
HeldByAxId(elements, el) == el.axNodeId # 0 /\ ByAxId(elements, el.axNodeId) = el

\* The axNodeId phase pairs preEl with postEl
AxPaired(preEl, postEl) ==
    /\ HeldByAxId(diffPre, preEl)
    /\ HeldByAxId(diffPost, postEl)
    /\ preEl.axNodeId = postEl.axNodeId

C26_OneToOne ==
    diffOut # NoDiff =>
        LET pairs == diffOut.match.matched
            consequences == diffOut.consequences
        IN  /\ \A i \in DOMAIN pairs :
                 /\ \E k \in DOMAIN diffPre : diffPre[k] = pairs[i].pre
                 /\ \E k \in DOMAIN diffPost : diffPost[k] = pairs[i].post
            /\ \A k \in DOMAIN diffPost :
                 Count(pairs, LAMBDA pr : pr.post.ref = diffPost[k].ref)
                 + Count(consequences, LAMBDA c : c.type = "appeared"
                                                  /\ c.ref = diffPost[k].ref) = 1
            /\ \A k \in DOMAIN diffPre :
                 Count(pairs, LAMBDA pr : pr.pre.ref = diffPre[k].ref)
                 + Count(consequences, LAMBDA c : c.type = "disappeared"
                                                  /\ c.ref = diffPre[k].ref) = 1
            /\ Count(consequences, LAMBDA c : c.type = "appeared") + Len(pairs)
               = Len(diffPost)
            /\ Count(consequences, LAMBDA c : c.type = "disappeared") + Len(pairs)
               = Len(diffPre)
            /\ \A i \in DOMAIN pairs :
                 ~AxPaired(pairs[i].pre, pairs[i].post) =>
                     /\ pairs[i].pre.domPath = pairs[i].post.domPath
                     /\ \A k \in DOMAIN diffPost : ~AxPaired(pairs[i].pre, diffPost[k])
                     /\ \A k \in DOMAIN diffPre : ~AxPaired(diffPre[k], pairs[i].post)

\* A post element is reported as appeared though the pre-snapshot holds an
\* element of its domPath, which the axNodeId phase has paired
C26_Witness ==
    /\ diffOut # NoDiff
    /\ \E i \in DOMAIN diffOut.match.appeared :
         /\ HasPath(diffPre, diffOut.match.appeared[i].domPath)
         /\ \E k \in DOMAIN diffPost :
              AxPaired(ByPath(diffPre, diffOut.match.appeared[i].domPath), diffPost[k])

-----------------------------------------------------------------------------
(* C27: the consequences are ordered by kind: appeared, disappeared,       *)
(* changed, network, then for scroll a dom-churn consequence (present iff  *)
(* churnCount > 0) and a layout-shift consequence (present iff cls > 0);   *)
(* no consequence of an earlier kind follows one of a later kind           *)
KindOrder == <<"appeared", "disappeared", "changed", "network", "dom-churn", "layout-shift">>
KindRank(type) == CHOOSE r \in DOMAIN KindOrder : KindOrder[r] = type

C27_ConsequenceOrder ==
    diffOut # NoDiff =>
        LET consequences == diffOut.consequences
        IN  /\ \A i, j \in DOMAIN consequences :
                 i < j => KindRank(consequences[i].type) <= KindRank(consequences[j].type)
            /\ Count(consequences, LAMBDA c : c.type = "dom-churn")
               = (IF diffOut.kind = "scroll" /\ diffOut.churnCount > 0 THEN 1 ELSE 0)
            /\ Count(consequences, LAMBDA c : c.type = "layout-shift")
               = (IF diffOut.kind = "scroll" /\ diffOut.cls > 0 THEN 1 ELSE 0)
            /\ Count(consequences, LAMBDA c : c.type = "network") = Len(diffOut.events)

\* A scroll whose result has a consequence of every kind
C27_Witness ==
    /\ diffOut # NoDiff
    /\ diffOut.kind = "scroll"
    /\ {diffOut.consequences[i].type : i \in DOMAIN diffOut.consequences}
       = {KindOrder[r] : r \in DOMAIN KindOrder}

-----------------------------------------------------------------------------
(* C28: for each matched pair the differ emits one changed consequence,    *)
(* with the post element's ref, if the pair differs in name, in role or in *)
(* the value of a property key of either element (a key only one of them   *)
(* carries differs), and none if the pair is equal in all of these         *)
PairDiffers(pre, post) ==
    \/ pre.name # post.name
    \/ pre.role # post.role
    \/ \E key \in DOMAIN pre.properties \cup DOMAIN post.properties :
         \/ key \notin DOMAIN pre.properties
         \/ key \notin DOMAIN post.properties
         \/ pre.properties[key] # post.properties[key]

C28_ChangedIffDiffers ==
    diffOut # NoDiff =>
        LET pairs == diffOut.match.matched
            consequences == diffOut.consequences
        IN  /\ \A i \in DOMAIN pairs :
                 Count(consequences, LAMBDA c : c.type = "changed"
                                                /\ c.ref = pairs[i].post.ref)
                 = (IF PairDiffers(pairs[i].pre, pairs[i].post) THEN 1 ELSE 0)
            /\ \A i \in DOMAIN consequences :
                 consequences[i].type = "changed" =>
                     \E k \in DOMAIN pairs : pairs[k].post.ref = consequences[i].ref

\* A pair that differs only in a key one element carries and the other does
\* not is reported, with the ref of the post element
C28_Witness ==
    /\ diffOut # NoDiff
    /\ \E i \in DOMAIN diffOut.match.matched :
         LET changed == diffOut.match.matched[i]
         IN  /\ changed.pre.name = changed.post.name
             /\ changed.pre.role = changed.post.role
             /\ DOMAIN changed.pre.properties # DOMAIN changed.post.properties
             /\ changed.pre.ref # changed.post.ref
             /\ \E c \in DOMAIN diffOut.consequences :
                  /\ diffOut.consequences[c].type = "changed"
                  /\ diffOut.consequences[c].ref = changed.post.ref

-----------------------------------------------------------------------------
(* C29: every Fetch/XHR request a stability wait counted yields a network  *)
(* consequence of the action: the requests that finished before the wait   *)
(* resolved and, with "pending", those still in flight when it resolved    *)
C29_EveryRequestReported ==
    stabPc = "resolved" =>
        LET consequences == Network(stabResult.networkEvents)
        IN  /\ Len(consequences) = Len(networkEvents) + Cardinality(pendingRequests)
            /\ Count(consequences, LAMBDA c : c.desc = "pending")
               >= Cardinality(pendingRequests)

-----------------------------------------------------------------------------
(* C35: at every point of a stability wait the pendingNetwork counter      *)
(* equals the number of entries of the in-flight request map, also when a  *)
(* requestId is announced more than once                                   *)
C35_CounterMatchesMap ==
    stabPc = "waiting" => pendingNetwork = Cardinality(pendingRequests)

-----------------------------------------------------------------------------
(* C32: during a stability wait a requestWillBeSent of a resource type     *)
(* other than Fetch and XHR, or with a timestamp before the action start,  *)
(* and a loadingFinished/loadingFailed for a requestId that is not in      *)
(* flight, leave pendingNetwork, the in-flight map and the network events  *)
(* as they are and do not restart the debounce timer                       *)
IgnoredEvents == {"sentOther", "sentEarly", "doneUnknown"}

C32_IgnoredEventsKeepState ==
    [][lastStep' \in IgnoredEvents =>
          UNCHANGED <<pendingNetwork, pendingRequests, networkEvents, debounceTimer,
                      lastEventAt>>]_vars

\* An early Fetch/XHR request is announced while another request is in
\* flight and the debounce timer, armed before, is running
C32_Witness ==
    /\ stabPc = "waiting"
    /\ lastStep = "sentEarly"
    /\ pendingRequests # {}
    /\ debounceTimer # NoTimer
    /\ debounceTimer < now + DEBOUNCE_MS

-----------------------------------------------------------------------------
(* C31: in scroll the mutation tracker subscribes before the scroll        *)
(* primitive is sent and is stopped only after the stability wait has      *)
(* resolved or the primitive has failed (as stated), or the clearing of    *)
(* the layout-shift accumulator has failed (as the code does); on every    *)
(* exit path after its creation its handlers are unsubscribed before       *)
(* scroll returns                                                          *)
Completed(step) == \E i \in DOMAIN scrollRun.steps : scrollRun.steps[i].step = step

Failed(step) ==
    \E i \in DOMAIN scrollRun.steps :
       scrollRun.steps[i].step = step /\ scrollRun.steps[i].failed

SubscribedBeforePrimitive ==
    /\ scrollPc = "primitive" => trkPc = "tracking"
    /\ \A i \in DOMAIN scrollRun.steps :
         scrollRun.steps[i].step = "primitive" =>
             /\ \E j \in 1..(i - 1) : scrollRun.steps[j].step = "tracker"
             /\ scrollRun.steps[i - 1].tracking
             /\ scrollRun.steps[i].tracking

UnsubscribedAtReturn ==
    scrollPc = "done" =>
        /\ trkPc = "stopped"
        /\ ~scrollRun.steps[Len(scrollRun.steps)].tracking

C31_AsStated ==
    /\ SubscribedBeforePrimitive
    /\ Completed("stop") => (Completed("stability") \/ Failed("primitive"))
    /\ UnsubscribedAtReturn

C31_TrackerCoversScroll ==
    /\ SubscribedBeforePrimitive
    /\ Completed("stop") =>
           (Completed("stability") \/ Failed("primitive") \/ Failed("clear"))
    /\ UnsubscribedAtReturn

\* scroll returns after the clearing of the accumulator and the collection
\* both failed, the tracker stopped with events in its maps
C31_Witness ==
    /\ scrollPc = "done"
    /\ Failed("clear")
    /\ Failed("collect")
    /\ ~Completed("primitive")
    /\ trkPc = "stopped"
    /\ trkEvents # <<>>

-----------------------------------------------------------------------------
(* C33: the interactable check returns NOT_INTERACTABLE when the element   *)
(* has no box model, at first or after it was scrolled into view; it calls *)
(* scrollIntoViewIfNeeded if and only if the centroid of the first content *)
(* quad lies outside [0,width]x[0,height] of the visual viewport; and when *)
(* it returns an error the action sends no input primitive and takes no    *)
(* pre-snapshot                                                            *)
InteractChecked ==
    /\ act.kind \in {"click", "fill"}
    /\ lastResolve.code = "known"
    /\ lastResolve.tier1 \/ lastResolve.tier2

InViewport(centroid) ==
    /\ 0 <= centroid.cx /\ centroid.cx <= vpWidth
    /\ 0 <= centroid.cy /\ centroid.cy <= vpHeight

Sent(method) == \E i \in DOMAIN lastResolve.sent : lastResolve.sent[i] = method

C33_InteractableCheck ==
    /\ (InteractChecked /\ lastResolve.fail \in {"DOM.getBoxModel", "DOM.getBoxModel#2"}) =>
           /\ pc = "done"
           /\ result.settled = "resolved"
           /\ ~result.ok
           /\ result.errors = <<"NOT_INTERACTABLE">>
    /\ (InteractChecked /\ lastResolve.fail \notin {"DOM.resolveNode", "DOM.getBoxModel",
                                                    "Page.getLayoutMetrics"}) =>
           (Sent("Runtime.callFunctionOn") <=> ~InViewport(lastResolve.centroid))
    /\ (pc = "done" /\ act.kind \in {"click", "fill"} /\ Resolved
          /\ \A i \in DOMAIN log : log[i] # "interactable") =>
           /\ "input" \notin cdpSent
           /\ "snapshot" \notin cdpSent
           /\ \A i \in DOMAIN log : log[i] # "pre:keep"

\* The element was outside the viewport, was scrolled into view and has no
\* box model after that
C33_Witness ==
    /\ InteractChecked
    /\ lastResolve.fail = "DOM.getBoxModel#2"
    /\ ~InViewport(lastResolve.centroid)
    /\ Sent("Runtime.callFunctionOn")
    /\ pc = "done"
    /\ result.errors = <<"NOT_INTERACTABLE">>
    /\ "input" \notin cdpSent

-----------------------------------------------------------------------------
(* C34: pressKey dispatches keyDown, then optionally char, then keyUp, in  *)
(* that order and with the same modifier bitmask on each; char is          *)
(* dispatched if and only if the primary key is a single character and     *)
(* none of ctrl, alt, meta is set; no interactable check and no ref        *)
(* resolution is made; when a dispatch fails the remaining events are not  *)
(* sent and the result is ACTION_FAILED                                    *)
KeyEvents == SelectSeq(keyRun.sent, LAMBDA req : req.method = "Input.dispatchKeyEvent")

Has(names) == \E mod \in keyRun.parts : toLowerCase(mod) \in names

PrimaryKey ==
    IF KEY_MAP(toLowerCase(keyRun.mainKey)) # Undef
    THEN KEY_MAP(toLowerCase(keyRun.mainKey))
    ELSE keyRun.mainKey

CharExpected ==
    /\ Len(PrimaryKey) = 1
    /\ ~Has({"control", "ctrl"})
    /\ ~Has({"alt"})
    /\ ~Has({"meta", "command", "cmd"})

ExpectedEvents ==
    IF CharExpected THEN <<"keyDown", "char", "keyUp">> ELSE <<"keyDown", "keyUp">>

Bitmask ==
    (IF Has({"control", "ctrl"}) THEN 2 ELSE 0) + (IF Has({"alt"}) THEN 1 ELSE 0)
    + (IF Has({"shift"}) THEN 8 ELSE 0) + (IF Has({"meta", "command", "cmd"}) THEN 4 ELSE 0)

C34_KeyEventSequence ==
    keyRun # NoKeyRun =>
        /\ Len(KeyEvents) <= Len(ExpectedEvents)
        /\ \A i \in DOMAIN KeyEvents :
             /\ KeyEvents[i].type = ExpectedEvents[i]
             /\ KeyEvents[i].modifiers = Bitmask
             /\ KeyEvents[i].key = PrimaryKey
             /\ KeyEvents[i].rejected =>
                    /\ i = Len(KeyEvents)
                    /\ keyPc = "done"
                    /\ keyRun.result = "ACTION_FAILED"
        /\ keyRun.result = "ok" => Len(KeyEvents) = Len(ExpectedEvents)
        /\ \A i \in DOMAIN keyRun.sent :
             keyRun.sent[i].method \in {"takeSnapshot", "Input.dispatchKeyEvent"}

\* shift+a: the three events, each with the bitmask of shift
C34_Witness ==
    /\ keyPc = "done"
    /\ keyRun.result = "ok"
    /\ keyRun.parts = {"shift"}
    /\ keyRun.mainKey = "a"
    /\ Len(KeyEvents) = 3
    /\ KeyEvents[2].type = "char"
    /\ KeyEvents[2].modifiers = 8

\* ---------------------------------------------------------------------------
\* C36: a Fetch/XHR request announced after actionStartTime was read and
\* before waitForStability subscribed is still counted: while the wait runs
\* it is among the pending requests, and the wait does not resolve as settled
\* while it is in flight.
C36_EarlyRequestCounted ==
    /\ stabPc = "waiting" => earlyRequests \subseteq pendingRequests
    /\ (stabPc = "resolved" /\ ~stabResult.timedOut) => earlyRequests = {}

\* ---------------------------------------------------------------------------
\* C37: when a mutating action returns ok:true, every ref of an appeared or
\* changed consequence and every ref of a newInteractiveElements line is live
\* in the registry and carries the identity of the post-snapshot element with
\* that ref, every ref of a disappeared consequence is absent from the
\* registry, and there are as many newInteractiveElements lines as appeared
\* consequences.
OfType(consequences, types) == SelectSeq(consequences, LAMBDA c : c.type \in types)

\* ref is in the registry, not stale, with the axNodeId and domPath of the
\* element of post that has this ref
LiveFor(m, ref, post) ==
    /\ ref \in DOMAIN m
    /\ ~getIdentity(m, ref).stale
    /\ \E i \in DOMAIN post :
         /\ post[i].ref = ref
         /\ post[i].axNodeId = getIdentity(m, ref).axNodeId
         /\ post[i].domPath = getIdentity(m, ref).domPath

RefsConsistent(m, post, res) ==
    /\ \A i \in DOMAIN res.consequences :
         LET c == res.consequences[i]
         IN  /\ c.type \in {"appeared", "changed"} => LiveFor(m, c.ref, post)
             /\ c.type = "disappeared" => c.ref \notin DOMAIN m
    /\ \A i \in DOMAIN res.newInteractiveElements :
         LiveFor(m, res.newInteractiveElements[i], post)
    /\ Len(res.newInteractiveElements) = Len(OfType(res.consequences, {"appeared"}))

C37_ResultRefsLive ==
    [][(pc = "diff" /\ pc' = "done" /\ result'.ok) =>
           RefsConsistent(refs', postSnapshot, result')]_vars

C37_Witness ==
    /\ ActionReturned
    /\ result.ok
    /\ OfType(result.consequences, {"appeared"}) # <<>>
    /\ OfType(result.consequences, {"disappeared"}) # <<>>
    /\ result.newInteractiveElements # <<>>

\* ---------------------------------------------------------------------------
\* C38: diffing an unchanged page reports nothing: when the post-snapshot has
\* the elements of the pre-snapshot in the same order, equal in axNodeId,
\* domPath, role, name and properties and different only in their refs, and
\* the refs of each snapshot are distinct, diffSnapshots(pre, post, [])
\* returns the empty list; elements may have an empty axNodeId or share a
\* domPath.
DistinctRefs(elements) ==
    \A i, j \in DOMAIN elements : elements[i].ref = elements[j].ref => i = j

SameElements(pre, post) ==
    /\ Len(pre) = Len(post)
    /\ \A i \in DOMAIN pre : [post[i] EXCEPT !.ref = pre[i].ref] = pre[i]

C38_UnchangedPageDiffsEmpty ==
    (/\ diffOut # NoDiff
     /\ diffOut.kind = "action"
     /\ diffOut.events = <<>>
     /\ DistinctRefs(diffPre) /\ DistinctRefs(diffPost)
     /\ SameElements(diffPre, diffPost))
        => diffOut.consequences = <<>>

\* ---------------------------------------------------------------------------
\* C39: navigate returns ok:true only after a Page.loadEventFired that its
\* own Page.navigate request caused: a load event of an earlier page load
\* that is delivered after the handler is subscribed does not complete the
\* navigation, and the snapshot returned is taken of the page the navigation
\* has loaded.
C39_OwnLoadCompletes ==
    (navPc = "done" /\ navRun.result = "ok") =>
        /\ navRun.resolved = "own"
        /\ navRun.snapshot = "loaded"

====
